---- MODULE Spec2Model ----
(***************************************************************************)
(* Model of the knowledge_system backend: the agentic controller           *)
(* (agentic_rag.py), the background task manager (task_manager.py with the *)
(* upload handler of main.py) and the corpus operations of the RAG engine  *)
(* (rag_engine.py: ingest, delete, BM25 cache load, hybrid search and the  *)
(* source-priority filter), the two SSE endpoints of main.py, one call of   *)
(* _hybrid_search on given rankings, and the outline-driven slicing of     *)
(* pdf_processor.py.  Further parts: ingestions running on two pool        *)
(* threads, the merge of the per-query results, _expand_to_parent, the     *)
(* writes of the three durable files, the pre-scan of admin_cli.py, the    *)
(* upload and delete endpoints, and _auto_discover_tools.                  *)
(***************************************************************************)
EXTENDS Integers, Sequences, FiniteSets, TLC

(***************************************************************************)
(* Program constants                                                       *)
(***************************************************************************)
\* agentic_rag.py:44  self.max_iterations = 3
max_iterations == 3
\* rag_engine.py:404  RERANK_TOP_N default
rerank_top_n == 5
\* rag_engine.py:403  RETRIEVAL_TOP_K default
retrieval_top_k == 20

(***************************************************************************)
(* Bounds of the model                                                     *)
(***************************************************************************)
\* number of distinct documents the retrieval pipeline can hand to the agent
MaxAgentDocs == 2
\* uploads accepted by POST /upload
MaxTasks == 2
\* largest chunk count an ingestion reports
MaxChunks == 1
\* rows the vector store holds, rows the BM25 index holds
MaxStored == 2
MaxIndexed == 3
\* rewrites the multi-query LLM adds to a question
MaxExpansions == 1
\* SSE requests served at the same time, content chunks of one answer
MaxStreams == 2
MaxContent == 2
\* chunks the two searches of one hybrid search rank
MaxRanked == 3
\* pages of the PDF that process_pdf is given
MaxPages == 10
\* results of the hybrid searches that one merge unites
MaxMerged == 2
\* children handed to _expand_to_parent, and how many of them are left out
MaxChildren == 15
MaxDropped == 3
\* saves of the durable files
MaxSaves == 2
\* keys of the parent map the tool discovery scans
MaxSources == 3

\* Python's Optional: None, or a value v held as Some(v)
None == <<>>
Some(v) == <<v>>

(***************************************************************************)
(* Generic helpers                                                         *)
(***************************************************************************)
Range(s) == {s[i] : i \in DOMAIN s}

\* all sequences without repetition over S with at most n elements
RECURSIVE DistinctSeqs(_, _)
DistinctSeqs(S, n) ==
    IF n = 0 \/ S = {} THEN {<<>>}
    ELSE {<<>>} \cup UNION {{<<x>> \o t : t \in DistinctSeqs(S \ {x}, n - 1)} : x \in S}

Min(a, b) == IF a < b THEN a ELSE b
Max(a, b) == IF a > b THEN a ELSE b

(***************************************************************************)
(* Strings. A Python str is a sequence of characters: Chars gives the      *)
(* characters of every string the model uses (all of them lower case, so   *)
(* str.lower() leaves them as they are).                                   *)
(***************************************************************************)
Chars ==
    "fc_ug.pdf" :> <<"f", "c", "_", "u", "g", ".", "p", "d", "f">> @@
    "notes.md" :> <<"n", "o", "t", "e", "s", ".", "m", "d">> @@
    "readme.txt" :> <<"r", "e", "a", "d", "m", "e", ".", "t", "x", "t">> @@
    "temp_fc_ug.pdf" :> <<"t", "e", "m", "p", "_", "f", "c", "_", "u", "g", ".", "p", "d", "f">> @@
    "temp_notes.md" :> <<"t", "e", "m", "p", "_", "n", "o", "t", "e", "s", ".", "m", "d">> @@
    ".pdf" :> <<".", "p", "d", "f">> @@
    ".md" :> <<".", "m", "d">> @@
    ".markdown" :> <<".", "m", "a", "r", "k", "d", "o", "w", "n">> @@
    "fc" :> <<"f", "c">> @@
    "fusion" :> <<"f", "u", "s", "i", "o", "n">> @@
    "pt" :> <<"p", "t">> @@
    "primetime" :> <<"p", "r", "i", "m", "e", "t", "i", "m", "e">> @@
    "icc2" :> <<"i", "c", "c", "2">> @@
    "ic_compiler" :> <<"i", "c", "_", "c", "o", "m", "p", "i", "l", "e", "r">> @@
    "icc" :> <<"i", "c", "c">> @@
    "dc" :> <<"d", "c">> @@
    "design_compiler" :> <<"d", "e", "s", "i", "g", "n", "_", "c", "o", "m", "p", "i", "l", "e", "r">> @@
    "fusion compiler" :> <<"f", "u", "s", "i", "o", "n", " ", "c", "o", "m", "p", "i", "l", "e", "r">> @@
    "prime time" :> <<"p", "r", "i", "m", "e", " ", "t", "i", "m", "e">> @@
    "ic compiler" :> <<"i", "c", " ", "c", "o", "m", "p", "i", "l", "e", "r">> @@
    "design compiler" :> <<"d", "e", "s", "i", "g", "n", " ", "c", "o", "m", "p", "i", "l", "e", "r">> @@
    "set" :> <<"s", "e", "t">> @@
    "get" :> <<"g", "e", "t">> @@
    "report" :> <<"r", "e", "p", "o", "r", "t">> @@
    "check" :> <<"c", "h", "e", "c", "k">> @@
    "remove" :> <<"r", "e", "m", "o", "v", "e">> @@
    "reset" :> <<"r", "e", "s", "e", "t">> @@
    "create" :> <<"c", "r", "e", "a", "t", "e">> @@
    "read" :> <<"r", "e", "a", "d">> @@
    "pt timing" :> <<"p", "t", " ", "t", "i", "m", "i", "n", "g">> @@
    "fc flow" :> <<"f", "c", " ", "f", "l", "o", "w">> @@
    "timing" :> <<"t", "i", "m", "i", "n", "g">> @@
    "report_timing options" :> <<"r", "e", "p", "o", "r", "t", "_", "t", "i", "m", "i", "n", "g", " ", "o", "p", "t", "i", "o", "n", "s">> @@
    "what is the timing flow here" :> <<"w", "h", "a", "t", " ", "i", "s", " ", "t", "h", "e", " ", "t", "i", "m", "i", "n", "g", " ", "f", "l", "o", "w", " ", "h", "e", "r", "e">>

\* the characters the regex classes \w and \b of re count as word characters
WordChars ==
    {"a", "b", "c", "d", "e", "f", "g", "h", "i", "j", "k", "l", "m", "n", "o", "p", "q", "r",
     "s", "t", "u", "v", "w", "x", "y", "z", "0", "1", "2", "3", "4", "5", "6", "7", "8", "9", "_"}

\* Python's `p in s` on strings
IsSubstring(p, s) ==
    \E i \in 0..(Len(s) - Len(p)) : \A j \in 1..Len(p) : s[i + j] = p[j]

\* the regex assertion \b between s[i] and s[i+1] (i = 0: before the first
\* character, i = Len(s): after the last)
IsWordAt(s, i) == i >= 1 /\ i <= Len(s) /\ s[i] \in WordChars
Boundary(s, i) == IsWordAt(s, i) # IsWordAt(s, i + 1)

\* re.search(r'\b(' + '|'.join(escaped keywords) + r')\b', s)
KeywordSearch(keywords, s) ==
    LET alts == IF keywords = <<>> THEN {<<>>} ELSE {Chars[keywords[k]] : k \in DOMAIN keywords}
    IN \E kw \in alts : \E i \in 0..(Len(s) - Len(kw)) :
          /\ \A j \in 1..Len(kw) : s[i + j] = kw[j]
          /\ Boundary(s, i)
          /\ Boundary(s, i + Len(kw))

(***************************************************************************)
(* State                                                                   *)
(***************************************************************************)
VARIABLES
    \* ---- AgentState (agentic_rag.py:17-27) and the graph position ----
    node,            \* node the compiled graph runs next; "END" when finished
    question,
    current_query,
    documents,
    generation,
    iteration,
    route_decision,
    grade_decision,
    skip_generate,
    executed,        \* number of executions of each node in this run
    \* ---- TaskManager (task_manager.py) and the upload handler (main.py) ----
    tasks,           \* self._tasks: task_id -> UploadTask
    worker,          \* position of each task's _run coroutine
    outcome,         \* what the ingestion call in the executor came back with
    saving,          \* upload handlers inside _save_upload_to_temp, per filename
    disk,            \* temp paths that exist on disk
    \* ---- AdvancedRAGEngine and its persist directory (rag_engine.py) ----
    vectorstore,     \* rows of the Chroma collection: the metadata of each chunk
    bm25_index,      \* the BM25Index object: documents, doc_ids, metadatas, bm25
    bm25_cache,      \* bm25_index.pkl
    parent_docs,     \* self.parent_docs: source -> parent ids
    parent_docs_file,\* parent_docs.json
    tool_config,
    document_keeps_dict, \* whether the installed Document keeps the metadata dict it is given
    last,            \* the operation of the engine that completed last
    filtered,        \* if that was a query: what _filter_by_source_priority returned
    top_docs,        \* if that was a query: the documents whose sources it emitted
    \* ---- the SSE endpoints /chat/stream and /chat/agentic/stream (main.py) ----
    streams,         \* per request: the endpoint, the generator's position, the events sent
    \* ---- one call of _hybrid_search on given rankings (rag_engine.py) ----
    fusion_in,       \* the query and what the two searches returned
    fusion_out,      \* doc_scores after the sort, or None before the call
    \* ---- one call of PDFProcessor.process_pdf (pdf_processor.py) ----
    pdf_in,          \* the PDF: the start pages of its outline, where its headers are
    pdf_out,         \* what the section loop did with each outline entry, or None
    \* ---- ingestions running in the default thread pool (task_manager.py _run) ----
    threads,         \* each ingestion thread: its position in ingest_document and add_documents
    \* ---- the cross-query union of query_stream and retrieve_node ----
    merge_in,        \* the results of _hybrid_search, one list for each query
    merge_out,       \* the merged candidate list, None before the merge
    \* ---- parent expansion (_expand_to_parent) ----
    expand_in,       \* the child Documents handed to _expand_to_parent
    expand_out,      \* the parent Documents returned, None before the call
    \* ---- the files of the durable stores while they are saved ----
    store_files,     \* every file on disk, the version of the content it holds and whether it holds all of it
    store_save,      \* the save under way and the statement it has reached
    crashed,         \* the process was killed
    \* ---- the upload command of the admin CLI (admin_cli.py cmd_upload) ----
    prescan_in,      \* the file handed to the upload command and whether the knowledge base lists it
    prescan_out,     \* what the command did with the file, None before it ran
    \* ---- the upload and delete endpoints (main.py) ----
    accepted,        \* the filenames uploaded with success and not deleted since
    response,        \* the last response of an upload or delete endpoint
    \* ---- tool discovery (_auto_discover_tools) ----
    discover_docs,   \* the keys of the parent map, in insertion order
    registry,        \* the tools of the registry, names as character sequences
    discovered,      \* what the last run of the discovery returned
    discover_op      \* the last operation: a run of the discovery or a change of the parent map

agentVars == <<node, question, current_query, documents, generation, iteration,
               route_decision, grade_decision, skip_generate, executed>>

taskVars == <<tasks, worker, outcome, saving, disk>>

engineVars == <<vectorstore, bm25_index, bm25_cache, parent_docs, parent_docs_file,
                tool_config, document_keeps_dict, last, filtered, top_docs>>

streamVars == <<streams>>

fusionVars == <<fusion_in, fusion_out>>

pdfVars == <<pdf_in, pdf_out>>

threadsVars == <<threads>>

mergeVars == <<merge_in, merge_out>>

expandVars == <<expand_in, expand_out>>

durableVars == <<store_files, store_save, crashed>>

prescanVars == <<prescan_in, prescan_out>>

uploadVars == <<accepted, response>>

discoverVars == <<discover_docs, registry, discovered, discover_op>>

vars == <<agentVars, taskVars, engineVars, streamVars, fusionVars, pdfVars, threadsVars, mergeVars, expandVars, durableVars, prescanVars, uploadVars, discoverVars>>

\* what the operations of one part leave alone
exceptAgent == <<taskVars, engineVars, streamVars, fusionVars, pdfVars, threadsVars, mergeVars, expandVars, durableVars, prescanVars, uploadVars, discoverVars>>
exceptTasks == <<agentVars, engineVars, streamVars, fusionVars, pdfVars, threadsVars, mergeVars, expandVars, durableVars, prescanVars, uploadVars, discoverVars>>
exceptEngine == <<agentVars, taskVars, streamVars, fusionVars, pdfVars, threadsVars, mergeVars, expandVars, durableVars, prescanVars, uploadVars, discoverVars>>
exceptStreams == <<agentVars, taskVars, engineVars, fusionVars, pdfVars, threadsVars, mergeVars, expandVars, durableVars, prescanVars, uploadVars, discoverVars>>
exceptFusion == <<agentVars, taskVars, engineVars, streamVars, pdfVars, threadsVars, mergeVars, expandVars, durableVars, prescanVars, uploadVars, discoverVars>>
exceptPdf == <<agentVars, taskVars, engineVars, streamVars, fusionVars, threadsVars, mergeVars, expandVars, durableVars, prescanVars, uploadVars, discoverVars>>
exceptThreads == <<agentVars, taskVars, engineVars, streamVars, fusionVars, pdfVars, mergeVars, expandVars, durableVars, prescanVars, uploadVars, discoverVars>>
exceptIngestion == <<agentVars, taskVars, streamVars, fusionVars, pdfVars, mergeVars, expandVars, durableVars, prescanVars, uploadVars, discoverVars>>
exceptMerge == <<agentVars, taskVars, engineVars, streamVars, fusionVars, pdfVars, threadsVars, expandVars, durableVars, prescanVars, uploadVars, discoverVars>>
exceptExpand == <<agentVars, taskVars, engineVars, streamVars, fusionVars, pdfVars, threadsVars, mergeVars, durableVars, prescanVars, uploadVars, discoverVars>>
exceptDurable == <<agentVars, taskVars, engineVars, streamVars, fusionVars, pdfVars, threadsVars, mergeVars, expandVars, prescanVars, uploadVars, discoverVars>>
exceptPrescan == <<agentVars, taskVars, engineVars, streamVars, fusionVars, pdfVars, threadsVars, mergeVars, expandVars, durableVars, uploadVars, discoverVars>>
exceptUpload == <<agentVars, taskVars, engineVars, streamVars, fusionVars, pdfVars, threadsVars, mergeVars, expandVars, durableVars, prescanVars, discoverVars>>
exceptUploading == <<agentVars, taskVars, streamVars, fusionVars, pdfVars, threadsVars, mergeVars, expandVars, durableVars, prescanVars, discoverVars>>
exceptDiscover == <<agentVars, taskVars, engineVars, streamVars, fusionVars, pdfVars, threadsVars, mergeVars, expandVars, durableVars, prescanVars, uploadVars>>

(***************************************************************************)
(* Agentic controller (agentic_rag.py)                                     *)
(***************************************************************************)
Nodes == {"router", "retrieve", "grade", "rewrite", "generate"}

\* questions a client may ask and queries the rewriting LLM may answer with
Questions == {"q_tech", "q_chat"}
Rewrites == {"q_tech", "q_rewritten"}

\* what the retrieval pipeline of retrieve_node can return: at most
\* rerank_top_n documents, no two with the same page_content
AgentDocs == 1..MaxAgentDocs
RetrievalResults == DistinctSeqs(AgentDocs, Min(rerank_top_n, MaxAgentDocs))

\* no agentic run has been started yet
InitAgent ==
    /\ node = "idle"
    /\ question = ""
    /\ current_query = ""
    /\ documents = <<>>
    /\ generation = ""
    /\ iteration = 0
    /\ route_decision = ""
    /\ grade_decision = ""
    /\ skip_generate = FALSE
    /\ executed = [n \in Nodes |-> 0]

\* query_agentic (skip = FALSE) and query_agentic_stream (skip = TRUE) build
\* initial_state and invoke the compiled graph, whose entry point is the router
agentic_invoke(q, skip) ==
    /\ node \in {"idle", "END"}
    /\ node' = "router"
    /\ question' = q
    /\ current_query' = q
    /\ documents' = <<>>
    /\ generation' = ""
    /\ iteration' = 0
    /\ route_decision' = ""
    /\ grade_decision' = ""
    /\ skip_generate' = skip
    /\ executed' = [n \in Nodes |-> 0]
    /\ UNCHANGED exceptAgent

Count(n) == [executed EXCEPT ![n] = @ + 1]

route_after_router(rd) == IF rd = "retrieve" THEN "retrieve" ELSE "generate"

\* a controller that ends the run at once when the documents are relevant
route_past_generate(it, gd) ==
    IF it >= max_iterations THEN "generate"
    ELSE IF gd = "relevant" THEN "END"
    ELSE "rewrite"

\* a controller that stops only after the cap has been passed
route_one_pass_more(it, gd) ==
    IF it > max_iterations THEN "generate"
    ELSE IF gd = "relevant" THEN "generate"
    ELSE "rewrite"

\* a controller that rewrites whatever the grade was
route_ignores_grade(it, gd) ==
    IF it >= max_iterations THEN "generate"
    ELSE "rewrite"

route_after_grade(it, gd) ==
    IF it >= max_iterations THEN "generate"
    ELSE IF gd = "relevant" THEN "generate"
    ELSE "rewrite"

\* decision: whether the LLM's one-word answer contains "retrieve"
RouterDecision(containsRetrieve) == IF containsRetrieve THEN "retrieve" ELSE "generate"

router_node ==
    /\ node = "router"
    /\ \E containsRetrieve \in BOOLEAN :
          /\ route_decision' = RouterDecision(containsRetrieve)
          /\ node' = route_after_router(route_decision')
    /\ executed' = Count("router")
    /\ UNCHANGED <<question, current_query, documents, generation, iteration,
                   grade_decision, skip_generate>>
    /\ UNCHANGED exceptAgent

\* a retrieve node that does not count its pass
IterationNotCounted(it) == it

IterationAfterRetrieve(it) == it + 1

retrieve_node ==
    /\ node = "retrieve"
    /\ \E docs \in RetrievalResults : documents' = docs
    /\ iteration' = IterationAfterRetrieve(iteration)
    /\ node' = "grade"
    /\ executed' = Count("retrieve")
    /\ UNCHANGED <<question, current_query, generation, route_decision,
                   grade_decision, skip_generate>>
    /\ UNCHANGED exceptAgent

\* documents judged "yes", in order
relevant_docs(docs, judged) == SelectSeq(docs, LAMBDA d : judged[d])

GradeDecision(docs, judged) ==
    IF docs = <<>> THEN "not_relevant"
    ELSE IF relevant_docs(docs, judged) # <<>> THEN "relevant"
    ELSE "not_relevant"

\* a grade node that keeps only the documents judged relevant
DocumentsFiltered(docs, judged) == relevant_docs(docs, judged)

\* state["documents"] after grading: the filtering is disabled (line 165)
DocumentsAfterGrade(docs, judged) == docs

grade_node ==
    /\ node = "grade"
    /\ \E judged \in [AgentDocs -> BOOLEAN] :
          /\ grade_decision' = GradeDecision(documents, judged)
          /\ documents' = DocumentsAfterGrade(documents, judged)
    /\ node' = route_after_grade(iteration, grade_decision')
    /\ executed' = Count("grade")
    /\ UNCHANGED <<question, current_query, generation, iteration,
                   route_decision, skip_generate>>
    /\ UNCHANGED exceptAgent

rewrite_node ==
    /\ node = "rewrite"
    /\ \E rewritten \in Rewrites : current_query' = rewritten
    /\ node' = "retrieve"
    /\ executed' = Count("rewrite")
    /\ UNCHANGED <<question, documents, generation, iteration, route_decision,
                   grade_decision, skip_generate>>
    /\ UNCHANGED exceptAgent

generate_node ==
    /\ node = "generate"
    /\ generation' = IF skip_generate THEN "" ELSE "answer"
    /\ node' = "END"
    /\ executed' = Count("generate")
    /\ UNCHANGED <<question, current_query, documents, iteration, route_decision,
                   grade_decision, skip_generate>>
    /\ UNCHANGED exceptAgent

NodeStep ==
    \/ router_node
    \/ retrieve_node
    \/ grade_node
    \/ rewrite_node
    \/ generate_node

NextAgent ==
    \/ \E q \in Questions, skip \in BOOLEAN : agentic_invoke(q, skip)
    \/ router_node
    \/ retrieve_node
    \/ grade_node
    \/ rewrite_node
    \/ generate_node


(***************************************************************************)
(* Task manager (task_manager.py) behind POST /upload (main.py)            *)
(***************************************************************************)
Filenames == {"a.pdf", "b.md"}
TaskIds == 1..MaxTasks
Terminal == {"completed", "failed"}

\* main.py:93  temp_path = f"./temp_{file.filename}"
temp_path(f) == <<"./temp_", f>>

InitTasks ==
    /\ tasks = <<>>
    /\ worker = <<>>
    /\ outcome = <<>>
    /\ saving = [f \in Filenames |-> 0]
    /\ disk = {}

\* datetime.now(): the instants are not told apart, a timestamp is set or unset
now == "now"
elapsed == "seconds"

\* UploadTask(task_id, filename, file_path) with the dataclass defaults
UploadTask(id, f, path) ==
    [task_id |-> id, filename |-> f, status |-> "pending", chunks_created |-> 0,
     error |-> None, created_at |-> Some(now), completed_at |-> None,
     processing_started_at |-> None, processing_duration |-> None,
     file_path |-> path]

to_dict(t) ==
    [task_id |-> t.task_id, filename |-> t.filename, status |-> t.status,
     chunks_created |-> t.chunks_created, error |-> t.error,
     created_at |-> t.created_at, completed_at |-> t.completed_at,
     processing_duration |-> t.processing_duration]

get_status(id) == IF id \in DOMAIN tasks THEN Some(to_dict(tasks[id])) ELSE None

\* list_tasks: every task, newest created_at first (tasks are created in the
\* order of their ids)
list_tasks == [i \in 1..Len(tasks) |-> to_dict(tasks[Len(tasks) + 1 - i])]

InFlight == saving["a.pdf"] + saving["b.md"]

\* upload_document up to the open() inside _save_upload_to_temp: the temp file
\* is created (or truncated), the handler then awaits the upload's segments
save_upload_to_temp(f) ==
    /\ Len(tasks) + InFlight < MaxTasks
    /\ saving' = [saving EXCEPT ![f] = @ + 1]
    /\ disk' = disk \cup {temp_path(f)}
    /\ UNCHANGED <<tasks, worker, outcome>>
    /\ UNCHANGED exceptTasks

\* a submit that would run the coroutine up to its first await
SpawnedEagerly == "executor"

\* where create_task leaves the new coroutine: queued on the event loop, not
\* started before the caller gives the loop back
SpawnedAt == "scheduled"
StatusWhenSpawned(w) == IF w = "scheduled" THEN "pending" ELSE "processing"

\* the rest of upload_document: the last segment is written and submit runs to
\* its return without a suspension point
submit(f) ==
    /\ saving[f] > 0
    /\ saving' = [saving EXCEPT ![f] = @ - 1]
    /\ LET id == Len(tasks) + 1
           task == UploadTask(id, f, temp_path(f))
       IN /\ tasks' = Append(tasks, [task EXCEPT !.status = StatusWhenSpawned(SpawnedAt)])
          /\ worker' = Append(worker, SpawnedAt)
          /\ outcome' = Append(outcome, None)
    /\ UNCHANGED disk
    /\ UNCHANGED exceptTasks

StatusAtStart == "processing"

\* _run up to its await of run_in_executor
run_start(id) ==
    /\ id \in DOMAIN tasks
    /\ worker[id] = "scheduled"
    /\ tasks' = [tasks EXCEPT ![id].status = StatusAtStart,
                              ![id].processing_started_at = Some(now)]
    /\ worker' = [worker EXCEPT ![id] = "executor"]
    /\ UNCHANGED <<outcome, saving, disk>>
    /\ UNCHANGED exceptTasks

\* the ingestion call in the thread pool returns a chunk count or raises
ingest_ends(id) ==
    /\ id \in DOMAIN tasks
    /\ worker[id] = "executor"
    /\ \E r \in [kind : {"returned"}, chunks : 0..MaxChunks]
               \cup [kind : {"raised"}, error : {"error"}] :
          outcome' = [outcome EXCEPT ![id] = r]
    /\ worker' = [worker EXCEPT ![id] = "resumable"]
    /\ UNCHANGED <<tasks, saving, disk>>
    /\ UNCHANGED exceptTasks

\* a worker that puts a task whose ingestion raised back in the queue
StatusRequeued(r) == IF r.kind = "returned" THEN "completed" ELSE "pending"

\* a worker that records no outcome
StatusLeftProcessing(r) == "processing"

StatusAfter(r) == IF r.kind = "returned" THEN "completed" ELSE "failed"

\* the finally block's cleanup: os.remove when the path exists
DiskAfterCleanup(path) == disk \ {path}

\* _run from the return of run_in_executor to its end: try/except/finally run
\* without a suspension point
run_finish(id) ==
    /\ id \in DOMAIN tasks
    /\ worker[id] = "resumable"
    /\ LET r == outcome[id]
           t == tasks[id]
       IN /\ tasks' = [tasks EXCEPT ![id] =
                [t EXCEPT !.status = StatusAfter(r),
                          !.chunks_created = IF r.kind = "returned" THEN r.chunks ELSE @,
                          !.error = IF r.kind = "raised" THEN Some(r.error) ELSE @,
                          !.completed_at = Some(now),
                          !.processing_duration = Some(elapsed)]]
          /\ disk' = DiskAfterCleanup(t.file_path)
    /\ worker' = [worker EXCEPT ![id] = "done"]
    /\ UNCHANGED <<outcome, saving>>
    /\ UNCHANGED exceptTasks

WorkerStep(id) == run_start(id) \/ ingest_ends(id) \/ run_finish(id)

NextTasks ==
    \/ \E f \in Filenames : save_upload_to_temp(f)
    \/ \E f \in Filenames : submit(f)
    \/ \E id \in TaskIds : run_start(id)
    \/ \E id \in TaskIds : ingest_ends(id)
    \/ \E id \in TaskIds : run_finish(id)

(***************************************************************************)
(* RAG engine: corpus and retrieval (rag_engine.py, pdf_processor.py)      *)
(***************************************************************************)
\* files a client ingests, and those of them the processors cut into chunks
Files == {"fc_ug.pdf", "notes.md", "readme.txt"}
Sources == {"fc_ug.pdf", "notes.md"}

\* Path(file_path).suffix
Suffix(f) ==
    LET s == Chars[f]
        dots == {i \in DOMAIN s : s[i] = "."}
    IN IF dots = {} THEN <<>>
       ELSE SubSeq(s, CHOOSE i \in dots : \A j \in dots : j <= i, Len(s))

\* the outline sections of each PDF that carry text (their safe titles), and
\* the header sections of each markdown file
Outline == ("fc_ug.pdf" :> <<"intro">>) @@ ("temp_fc_ug.pdf" :> <<"intro">>)
Headers == ("notes.md" :> <<"setup">>) @@ ("temp_notes.md" :> <<"setup">>)

\* f"{i:03d}" and str(i) for the section and chunk numbers that occur
Pad3(i) == <<"000", "001", "002", "003">>[i + 1]
Str(i) == <<"0", "1", "2", "3">>[i + 1]

\* process_pdf: one child chunk per section, every child names its parent
process_pdf(filename) ==
    LET secs == Outline[filename]
        parent_id(i) == filename \o "_sec_" \o Pad3(i - 1) \o "_" \o secs[i]
    IN [documents |-> [i \in DOMAIN secs |->
                          [source |-> filename,
                           chunk_id |-> parent_id(i) \o "_" \o Str(0),
                           parent_id |-> parent_id(i),
                           source_role |-> "primary"]],
        parent_map |-> {parent_id(i) : i \in DOMAIN secs}]

\* _chunk_markdown and the Document loop of ingest_document: one child chunk
\* per header section, chunk_id is the chunk's position in the file
chunk_markdown(filename) ==
    LET secs == Headers[filename]
        parent_id(i) == filename \o "::" \o secs[i]
    IN [documents |-> [i \in DOMAIN secs |->
                          [source |-> filename,
                           chunk_id |-> Str(i - 1),
                           parent_id |-> parent_id(i),
                           source_role |-> "primary"]],
        parent_map |-> {parent_id(i) : i \in DOMAIN secs}]

\* f"{source}_{chunk_id}", the key of both retrieval branches and of the merge
doc_key(m) == m.source \o "_" \o m.chunk_id

\* the text of a chunk, told apart by the chunk it was cut as
page_content(m) == doc_key(m)

\* a dict: put and delete of one key
EmptyMap == [k \in {} |-> {}]
Put(m, key, v) == [k \in DOMAIN m \cup {key} |-> IF k = key THEN v ELSE m[k]]
Del(m, key) == [k \in DOMAIN m \ {key} |-> m[k]]
Get(m, key, default) == IF key \in DOMAIN m THEN m[key] ELSE default

\* ---- BM25Index ----
\* b = [index |-> the object's fields, cache |-> bm25_index.pkl or None]
EmptyIndex == [documents |-> <<>>, doc_ids |-> <<>>, metadatas |-> <<>>, bm25 |-> None]

\* BM25Okapi is built over the documents held at that moment
_rebuild_index(ix) ==
    [ix EXCEPT !.bm25 = IF ix.documents = <<>> THEN None ELSE Some(Len(ix.documents))]

save(b) == IF b.index.documents = <<>> THEN b ELSE [b EXCEPT !.cache = Some(b.index)]

\* load: [ok |-> the return value, b |-> the state afterwards]
load(b, expected_count) ==
    IF b.cache = None THEN [ok |-> FALSE, b |-> b]
    ELSE IF expected_count >= 0 /\ Len(b.cache[1].documents) # expected_count
         THEN [ok |-> FALSE, b |-> b]
    ELSE [ok |-> TRUE, b |-> [b EXCEPT !.index = b.cache[1]]]

\* the documents are appended to the lists the object holds; the metadata has
\* no "id", so doc_ids gets the decimal of its own length
add_documents(b, docs) ==
    IF docs = <<>> THEN b
    ELSE LET n == Len(b.index.doc_ids)
             ix == [documents |-> b.index.documents \o [i \in DOMAIN docs |-> page_content(docs[i])],
                    doc_ids |-> b.index.doc_ids \o [i \in DOMAIN docs |-> n + i - 1],
                    metadatas |-> b.index.metadatas \o docs,
                    bm25 |-> b.index.bm25]
         IN save([b EXCEPT !.index = _rebuild_index(ix)])

\* a clear that forgets to drop the BM25Okapi object
clear_keeps_bm25(b) == [index |-> [EmptyIndex EXCEPT !.bm25 = b.index.bm25], cache |-> None]

\* clear: the three lists and bm25 are reset, the cache file is removed
clear(b) == [index |-> EmptyIndex, cache |-> None]

\* _load_bm25_index: the cache when its length is the collection's count,
\* else every document of the collection is added to the index object
_load_bm25_index(b, collection) ==
    LET r == load(b, Len(collection))
    IN IF r.ok THEN r.b ELSE add_documents(b, collection)

\* ---- retrieval ----
\* _load_tool_config: the default configuration
default_config ==
    [tools |-> <<
        [id |-> "fc", filename_patterns |-> <<"fc", "fusion">>,
         query_keywords |-> <<"fc", "fusion compiler">>],
        [id |-> "pt", filename_patterns |-> <<"pt", "primetime">>,
         query_keywords |-> <<"pt", "primetime", "prime time">>],
        [id |-> "icc2", filename_patterns |-> <<"icc2", "ic_compiler", "icc">>,
         query_keywords |-> <<"icc2", "ic compiler", "icc">>],
        [id |-> "dc", filename_patterns |-> <<"dc", "design_compiler">>,
         query_keywords |-> <<"dc", "design compiler">>] >>]

\* questions of a client, and rewrites the multi-query LLM answers with
UserQuestions == {"pt timing", "fc flow", "what is the timing flow here"}
Expansions == {"report_timing options"}

\* an embedding model or BM25 scoring prefers the chunks of one source to
\* those of another; chunks with the same text score the same
Preferences == {p \in [1..Cardinality(Sources) -> Sources] : Range(p) = Sources}

RECURSIVE Flatten(_)
Flatten(ss) == IF ss = <<>> THEN <<>> ELSE Head(ss) \o Flatten(Tail(ss))

\* positions of metas, best first: by preference of the source, equal scores
\* in the order of the positions (list.sort is stable)
Ranked(metas, pref) ==
    LET idx == [i \in DOMAIN metas |-> i]
    IN Flatten([p \in DOMAIN pref |-> SelectSeq(idx, LAMBDA i : metas[i].source = pref[p])])

Prefix(s, n) == SubSeq(s, 1, Min(n, Len(s)))

\* one preference for each ranking of metas that some preference gives
Orderings(metas) ==
    {CHOOSE p \in Preferences : Ranked(metas, p) = r :
        r \in {Ranked(metas, p) : p \in Preferences}}

\* BM25Index.search
search(ix, pref, top_k) ==
    IF ix.bm25 = None \/ ix.documents = <<>> THEN <<>>
    ELSE Prefix(Ranked(SubSeq(ix.metadatas, 1, ix.bm25[1]), pref), top_k)

\* similarity_search_with_score: Documents built from the collection's rows
similarity_search(collection, pref, k) ==
    LET r == Prefix(Ranked(collection, pref), k)
    IN [i \in DOMAIN r |-> collection[r[i]]]

\* words of str.split()
IsSpace(c) == c = " "
WordCount(s) ==
    Cardinality({i \in DOMAIN s : ~IsSpace(s[i]) /\ (i = 1 \/ IsSpace(s[i - 1]))})

\* re.search(r'\b(set|get|report|check|remove|reset|create|read)_\w+', s)
CommandVerbs == <<"set", "get", "report", "check", "remove", "reset", "create", "read">>
IsCommand(s) ==
    \E v \in Range(CommandVerbs) : \E i \in 0..(Len(s) - Len(Chars[v])) :
        LET kw == Chars[v]
        IN /\ \A j \in 1..Len(kw) : s[i + j] = kw[j]
           /\ Boundary(s, i)
           /\ i + Len(kw) + 2 <= Len(s)
           /\ s[i + Len(kw) + 1] = "_"
           /\ s[i + Len(kw) + 2] \in WordChars

Interrogatives == {"?"}

\* _compute_search_weights, in tenths
_compute_search_weights(query) ==
    LET s == Chars[query]
    IN IF IsCommand(s) THEN <<3, 7>>
       ELSE IF WordCount(s) <= 3 /\ ~\E i \in DOMAIN s : s[i] \in Interrogatives THEN <<4, 6>>
       ELSE <<5, 5>>

\* the weights, worked out once for the queries of the model
SearchWeights == [query \in UserQuestions \cup Expansions |-> _compute_search_weights(query)]

\* weight / (60 + rank) as an integer: the least common multiple of
\* 60..64 over ten
RankScale == 64 * 9 * 5 * 7 * 31 * 61
\* a fusion that gives every rank the contribution of rank 0
rrf_rank_blind(weight, rank) == (weight * RankScale) \div 60

rrf_score(weight, rank) == (weight * RankScale) \div (60 + rank)

HasKey(acc, key) == \E i \in DOMAIN acc : acc[i].key = key

\* doc_scores and doc_map in insertion order, after the loop over the vector
\* results; a Document from the collection owns its metadata (slot 0)
RECURSIVE AddVectorResults(_, _, _, _)
AddVectorResults(acc, results, n, weight) ==
    IF n > Len(results) THEN acc
    ELSE LET key == doc_key(results[n])
             s == rrf_score(weight, n - 1)
             doc == [meta |-> results[n], slot |-> 0]
             acc2 == IF HasKey(acc, key)
                     THEN [i \in DOMAIN acc |->
                              IF acc[i].key = key
                              THEN [acc[i] EXCEPT !.score = @ + s, !.doc = doc]
                              ELSE acc[i]]
                     ELSE Append(acc, [key |-> key, score |-> s, doc |-> doc])
         IN AddVectorResults(acc2, results, n + 1, weight)

\* Document(page_content=content, metadata=metadata) on a row of the index:
\* the build decides whether the Document keeps the dict it was given (slot =
\* the row) or a copy of it (slot 0)
DocumentOf(ix, row, keeps_dict) ==
    [meta |-> ix.metadatas[row], slot |-> IF keeps_dict THEN row ELSE 0]

\* the loop over the BM25 results
RECURSIVE AddBM25Results(_, _, _, _, _, _)
AddBM25Results(acc, ix, results, n, weight, keeps_dict) ==
    IF n > Len(results) THEN acc
    ELSE LET row == results[n]
             key == doc_key(ix.metadatas[row])
             s == rrf_score(weight, n - 1)
             acc2 == IF row > Len(ix.documents) THEN acc
                     ELSE IF HasKey(acc, key)
                     THEN [i \in DOMAIN acc |->
                              IF acc[i].key = key THEN [acc[i] EXCEPT !.score = @ + s]
                              ELSE acc[i]]
                     ELSE Append(acc, [key |-> key, score |-> s,
                                       doc |-> DocumentOf(ix, row, keeps_dict)])
         IN AddBM25Results(acc2, ix, results, n + 1, weight, keeps_dict)

\* sorted(..., key=score, reverse=True): stable
RECURSIVE SortedByScore(_)
SortedByScore(s) ==
    IF s = <<>> THEN <<>>
    ELSE LET init == SortedByScore(SubSeq(s, 1, Len(s) - 1))
             x == s[Len(s)]
             k == Cardinality({i \in DOMAIN init : init[i].score >= x.score})
         IN SubSeq(init, 1, k) \o <<x>> \o SubSeq(init, k + 1, Len(init))

\* the fusion of _hybrid_search (lines 911-944): doc_scores and doc_map after
\* both loops, sorted by score
sorted_docs(vector_results, ix, bm25_results, w, keeps_dict) ==
    LET fromVector == AddVectorResults(<<>>, vector_results, 1, w[1])
        fused == IF ix.documents # <<>>
                 THEN AddBM25Results(fromVector, ix, bm25_results, 1, w[2], keeps_dict)
                 ELSE fromVector
    IN SortedByScore(fused)

_hybrid_search(collection, ix, query, top_k, vpref, bpref, keeps_dict) ==
    LET w == SearchWeights[query]
        vector_results == similarity_search(collection, vpref, top_k)
        bm25_results == search(ix, bpref, top_k)
        top == Prefix(sorted_docs(vector_results, ix, bm25_results, w, keeps_dict), top_k)
    IN [i \in DOMAIN top |-> top[i].doc]

\* all_candidates of query_stream: the results of every query, a key kept
\* the first time it is seen
RECURSIVE MergeCandidates(_, _)
MergeCandidates(acc, docs) ==
    IF docs = <<>> THEN acc
    ELSE LET d == Head(docs)
         IN MergeCandidates(
                IF \E i \in DOMAIN acc : doc_key(acc[i].meta) = doc_key(d.meta)
                THEN acc ELSE Append(acc, d),
                Tail(docs))

\* the regex searches and substring tests of the filter, worked out once for
\* the strings of the model
KeywordHit ==
    [q \in UserQuestions |->
        [kws \in {default_config.tools[i].query_keywords : i \in DOMAIN default_config.tools} |->
            KeywordSearch(kws, Chars[q])]]
PatternHit ==
    [source \in Sources |->
        [ps \in {default_config.tools[i].filename_patterns : i \in DOMAIN default_config.tools} |->
            \E p \in Range(ps) : IsSubstring(Chars[p], Chars[source])]]

\* the first configured tool one of whose keywords the question names
target_tool(config, q) ==
    LET hits == {i \in DOMAIN config.tools : KeywordHit[q][config.tools[i].query_keywords]}
    IN IF hits = {} THEN None
       ELSE Some(config.tools[CHOOSE i \in hits : \A j \in hits : i <= j])

is_match(tool, source) == PatternHit[source][tool.filename_patterns]

\* rag_engine.py:1204  hard limit on supplementary documents
MAX_OTHER_DOCS == 1
MAX_PARENT_COUNT == 8
MAX_PARENT_SIZE == 8000
WINDOW_SIZE == 2000

RoleFor(tool, source) == IF is_match(tool, source) THEN "primary" ELSE "supplementary"

\* _filter_by_source_priority: [result |-> the list returned, marked |-> the
\* documents whose metadata the loop has written]
_filter_by_source_priority(config, q, docs) ==
    LET t == target_tool(config, q)
    IN IF t = None THEN [result |-> docs, marked |-> <<>>]
       ELSE LET marked == [i \in DOMAIN docs |->
                              [docs[i] EXCEPT !.meta.source_role = RoleFor(t[1], docs[i].meta.source)]]
                matching_docs == SelectSeq(marked, LAMBDA d : d.meta.source_role = "primary")
                other_docs == SelectSeq(marked, LAMBDA d : d.meta.source_role = "supplementary")
            IN [result |-> matching_docs \o Prefix(other_docs, MAX_OTHER_DOCS),
                marked |-> marked]

\* the rows of the index after the filter wrote into the dicts that the
\* Documents share with it
MetadatasAfter(metadatas, marked) ==
    [row \in DOMAIN metadatas |->
        IF \E i \in DOMAIN marked : marked[i].slot = row
        THEN (CHOOSE d \in Range(marked) : d.slot = row).meta
        ELSE metadatas[row]]

\* _rerank_documents: the reranker's order, cut to top_n
_rerank_documents(docs, pref, top_n) ==
    LET r == Prefix(Ranked([i \in DOMAIN docs |-> docs[i].meta], pref), top_n)
    IN [i \in DOMAIN r |-> docs[r[i]]]

Metas(docs) == [i \in DOMAIN docs |-> docs[i].meta]

\* ---- operations of the engine ----
\* the engine constructed on an empty persist directory
InitEngine ==
    /\ vectorstore = <<>>
    /\ bm25_index = EmptyIndex
    /\ bm25_cache = None
    /\ parent_docs = EmptyMap
    /\ parent_docs_file = None
    /\ tool_config = default_config
    /\ document_keeps_dict \in BOOLEAN
    /\ filtered = <<>>
    /\ top_docs = <<>>
    /\ last = [op |-> "init", arg |-> "", ok |-> TRUE]

BM25 == [index |-> bm25_index, cache |-> bm25_cache]

IsPdf(file) == Suffix(file) = Chars[".pdf"]
IsMarkdown(file) == Suffix(file) \in {Chars[".md"], Chars[".markdown"]}

\* parent_docs after the processor of the file has run
ParentDocsAfterParse(pd, filename, parsed, extra) ==
    Put(pd, filename, Get(pd, filename, {}) \cup parsed.parent_map \cup extra)

\* ingest_document(file_path, filename). how: the file is read and the
\* vector store takes the batch ("ok"), the file cannot be read
\* ("unreadable"), or the embedding call of the vector store raises
\* ("store_fails")
ingest_document_body(file, how) ==
    LET filename == file
        parsed == IF IsPdf(file) THEN process_pdf(filename) ELSE chunk_markdown(filename)
        entered == IF IsMarkdown(file) /\ filename \notin DOMAIN parent_docs
                   THEN Put(parent_docs, filename, {}) ELSE parent_docs
        pd == ParentDocsAfterParse(parent_docs, filename, parsed,
                                   IF IsMarkdown(file) THEN {"full_text"} ELSE {})
        added == add_documents(BM25, parsed.documents)
    IN /\ IF ~(IsPdf(file) \/ IsMarkdown(file))
          THEN \* ValueError: unsupported file type
               /\ how = "ok"
               /\ last' = [op |-> "ingest", arg |-> file, ok |-> FALSE]
               /\ UNCHANGED <<vectorstore, bm25_index, bm25_cache, parent_docs,
                              parent_docs_file>>
          ELSE IF how = "unreadable"
          THEN /\ parent_docs' = entered
               /\ last' = [op |-> "ingest", arg |-> file, ok |-> FALSE]
               /\ UNCHANGED <<vectorstore, bm25_index, bm25_cache, parent_docs_file>>
          ELSE IF parsed.documents = <<>>
          THEN \* return 0
               /\ how = "ok"
               /\ parent_docs' = pd
               /\ last' = [op |-> "ingest", arg |-> file, ok |-> TRUE]
               /\ UNCHANGED <<vectorstore, bm25_index, bm25_cache, parent_docs_file>>
          ELSE IF how = "store_fails"
          THEN /\ parent_docs' = pd
               /\ last' = [op |-> "ingest", arg |-> file, ok |-> FALSE]
               /\ UNCHANGED <<vectorstore, bm25_index, bm25_cache, parent_docs_file>>
          ELSE /\ Len(vectorstore) + Len(parsed.documents) <= MaxStored
               /\ Len(added.index.documents) <= MaxIndexed
               /\ vectorstore' = vectorstore \o parsed.documents
               /\ bm25_index' = added.index
               /\ bm25_cache' = added.cache
               /\ parent_docs' = pd
               /\ parent_docs_file' = Some(pd)
               /\ last' = [op |-> "ingest", arg |-> file, ok |-> TRUE]
       /\ filtered' = <<>> /\ top_docs' = <<>>
       /\ UNCHANGED <<tool_config, document_keeps_dict>>

ingest_document(file, how) ==
    /\ ingest_document_body(file, how)
    /\ UNCHANGED exceptEngine

\* the collection without the rows of one source
WithoutSource(collection, filename) ==
    SelectSeq(collection, LAMBDA m : m.source # filename)

delete_document_body(filename) ==
    LET remaining == WithoutSource(vectorstore, filename)
        loaded == _load_bm25_index(BM25, remaining)
    IN /\ Len(loaded.index.documents) <= MaxIndexed
       /\ vectorstore' = remaining
       /\ parent_docs' = Del(parent_docs, filename)
       /\ bm25_index' = loaded.index
       /\ bm25_cache' = loaded.cache
       /\ last' = [op |-> "delete", arg |-> filename, ok |-> TRUE]
       /\ filtered' = <<>> /\ top_docs' = <<>>
       /\ UNCHANGED <<parent_docs_file, tool_config, document_keeps_dict>>

delete_document(filename) ==
    /\ delete_document_body(filename)
    /\ UNCHANGED exceptEngine

clear_all ==
    /\ vectorstore' = <<>>
    /\ bm25_index' = clear(BM25).index
    /\ bm25_cache' = clear(BM25).cache
    /\ parent_docs' = EmptyMap
    /\ last' = [op |-> "clear", arg |-> "", ok |-> TRUE]
    /\ filtered' = <<>> /\ top_docs' = <<>>
    /\ UNCHANGED <<parent_docs_file, tool_config, document_keeps_dict>>
    /\ UNCHANGED exceptEngine

\* the process is started again on the same persist directory: __init__
restart ==
    LET loaded == _load_bm25_index([index |-> EmptyIndex, cache |-> bm25_cache], vectorstore)
    IN /\ bm25_index' = loaded.index
       /\ bm25_cache' = loaded.cache
       /\ parent_docs' = IF parent_docs_file = None THEN EmptyMap ELSE parent_docs_file[1]
       /\ last' = [op |-> "restart", arg |-> "", ok |-> TRUE]
       /\ filtered' = <<>> /\ top_docs' = <<>>
       /\ UNCHANGED <<vectorstore, parent_docs_file, tool_config, document_keeps_dict>>
       /\ UNCHANGED exceptEngine

\* query_stream up to the sources it emits: multi-query generation, hybrid
\* search per query, merge, source-priority filter, rerank
query_stream(q, expansions, vprefs, bprefs) ==
    LET queries == <<q>> \o expansions
        top_k == (retrieval_top_k \div Len(queries)) + 5
        results == [i \in DOMAIN queries |->
                       _hybrid_search(vectorstore, bm25_index, queries[i], top_k,
                                      vprefs[i], bprefs[i], document_keeps_dict)]
        candidates == MergeCandidates(<<>>, Flatten(results))
        f == _filter_by_source_priority(tool_config, q, candidates)
    IN /\ filtered' = Metas(f.result)
       /\ \E rpref \in Orderings(Metas(f.result)) :
             top_docs' = Metas(_rerank_documents(f.result, rpref, rerank_top_n))
       /\ bm25_index' = [bm25_index EXCEPT !.metadatas = MetadatasAfter(@, f.marked)]
       /\ last' = [op |-> "query", arg |-> q, ok |-> TRUE]
       /\ UNCHANGED <<vectorstore, bm25_cache, parent_docs, parent_docs_file, tool_config,
                      document_keeps_dict>>
       /\ UNCHANGED exceptEngine

\* a query with every answer of the multi-query LLM and every ranking the
\* two searches and the reranker can give on the corpus as it is
Query ==
    \E q \in UserQuestions, n \in 0..MaxExpansions :
        \E expansions \in [1..n -> Expansions],
           vprefs \in [1..(n + 1) -> Orderings(vectorstore)],
           bprefs \in [1..(n + 1) -> Orderings(bm25_index.metadatas)] :
              query_stream(q, expansions, vprefs, bprefs)

(***************************************************************************)
(* Streaming endpoints (main.py chat_stream, chat_agentic_stream over      *)
(* rag_engine.py query_stream, query_agentic_stream)                       *)
(***************************************************************************)
Requests == 1..MaxStreams
Endpoints == {"/chat/stream", "/chat/agentic/stream"}

InitStreams ==
    streams = [r \in Requests |-> [endpoint |-> "", pc |-> "idle", events |-> <<>>]]

\* event_generator yields one SSE data line per dict of the engine's generator
Sent(r, type) == [streams EXCEPT ![r].events = Append(@, type)]

ContentSent(r) == Len(SelectSeq(streams[r].events, LAMBDA e : e = "content"))

\* POST /chat/stream or /chat/agentic/stream: StreamingResponse starts the
\* event generator, which enters the engine's generator
event_generator(r, endpoint) ==
    /\ streams[r].pc = "idle"
    /\ streams' = [streams EXCEPT ![r].endpoint = endpoint, ![r].pc = "retrieving"]
    /\ UNCHANGED exceptStreams

\* the engine's generator up to its first yield: the user message is saved,
\* the documents are retrieved (query_stream) or the graph is run
\* (query_agentic_stream), and the metadata event is yielded
yield_metadata(r) ==
    /\ streams[r].pc = "retrieving"
    /\ streams' = [Sent(r, "metadata") EXCEPT ![r].pc = "streaming"]
    /\ UNCHANGED exceptStreams

\* a call before the first yield raises: neither generator catches it there,
\* the except clause of event_generator sends the error event and returns
raise_before_metadata(r) ==
    /\ streams[r].pc = "retrieving"
    /\ streams' = [Sent(r, "error") EXCEPT ![r].pc = "closed"]
    /\ UNCHANGED exceptStreams

\* the LLM stream gives a chunk; a chunk with empty content is not yielded
astream_chunk(r, has_content) ==
    /\ streams[r].pc = "streaming"
    /\ ContentSent(r) < MaxContent
    /\ has_content
    /\ streams' = Sent(r, "content")
    /\ UNCHANGED exceptStreams

\* the LLM stream raises. query_stream catches it (rag_engine.py:1419-1430),
\* yields the error event and goes on to the statements after the try;
\* query_agentic_stream has no try, so the exception reaches event_generator
astream_raises(r) ==
    /\ streams[r].pc = "streaming"
    /\ streams' = [Sent(r, "error") EXCEPT
                      ![r].pc = IF streams[r].endpoint = "/chat/stream"
                                THEN "saving" ELSE "closed"]
    /\ UNCHANGED exceptStreams

\* the LLM stream is exhausted
astream_ends(r) ==
    /\ streams[r].pc = "streaming"
    /\ streams' = [streams EXCEPT ![r].pc = "saving"]
    /\ UNCHANGED exceptStreams

\* the assistant message and the history are saved and done is yielded
yield_done(r) ==
    /\ streams[r].pc = "saving"
    /\ streams' = [Sent(r, "done") EXCEPT ![r].pc = "closed"]
    /\ UNCHANGED exceptStreams

\* db.add_message raises after the answer: event_generator sends the error
raise_on_save(r) ==
    /\ streams[r].pc = "saving"
    /\ streams' = [Sent(r, "error") EXCEPT ![r].pc = "closed"]
    /\ UNCHANGED exceptStreams

NextStreams ==
    \/ \E r \in Requests, endpoint \in Endpoints : event_generator(r, endpoint)
    \/ \E r \in Requests : yield_metadata(r)
    \/ \E r \in Requests : raise_before_metadata(r)
    \/ \E r \in Requests, has_content \in BOOLEAN : astream_chunk(r, has_content)
    \/ \E r \in Requests : astream_raises(r)
    \/ \E r \in Requests : astream_ends(r)
    \/ \E r \in Requests : yield_done(r)
    \/ \E r \in Requests : raise_on_save(r)

(***************************************************************************)
(* One hybrid search on given rankings (rag_engine.py _hybrid_search)      *)
(***************************************************************************)
\* the chunks of one document that the searches rank, and the BM25 index
\* that holds them in this order
RankedChunks ==
    [i \in 1..MaxRanked |->
        [source |-> "fc_ug.pdf", chunk_id |-> <<"X", "Y", "Z", "W">>[i],
         parent_id |-> "fc_ug.pdf_sec_000_intro", source_role |-> "primary"]]

RankedIndex ==
    _rebuild_index([documents |-> [i \in 1..MaxRanked |-> page_content(RankedChunks[i])],
                    doc_ids |-> [i \in 1..MaxRanked |-> i - 1],
                    metadatas |-> RankedChunks,
                    bm25 |-> None])

\* what similarity_search_with_score and BM25Index.search can return: the
\* rows, best first, no row twice
Rankings == DistinctSeqs(1..MaxRanked, MaxRanked)

FusionInputs ==
    [query : UserQuestions \cup Expansions, top_k : {retrieval_top_k},
     dense : Rankings, sparse : Rankings]

\* no hybrid search is under way
InitFusion ==
    /\ fusion_in = [query |-> "pt timing", top_k |-> retrieval_top_k,
                    dense |-> <<>>, sparse |-> <<>>]
    /\ fusion_out = None

\* _hybrid_search is entered with a query on which the searches return these
InitFusionCall ==
    /\ fusion_in \in FusionInputs
    /\ fusion_out = None

\* _hybrid_search from the weights to the sort: key and fused score of every
\* document, best first
hybrid_search_fuse ==
    /\ fusion_out = None
    /\ LET vector_results == [i \in DOMAIN fusion_in.dense |-> RankedChunks[fusion_in.dense[i]]]
           sorted == sorted_docs(vector_results, RankedIndex, fusion_in.sparse,
                                 SearchWeights[fusion_in.query], FALSE)
       IN fusion_out' = Some([i \in DOMAIN sorted |->
                                 [key |-> sorted[i].key, score |-> sorted[i].score]])
    /\ UNCHANGED fusion_in
    /\ UNCHANGED exceptFusion

NextFusion == hybrid_search_fuse

\* values of top_k a caller passes
TopKs == {1, 2, retrieval_top_k}

\* _hybrid_search on the stores as they are: the keys of what the two
\* searches returned, in rank order, and key and fused score of what is
\* returned
hybrid_search_call(query, top_k, vpref, bpref) ==
    /\ LET vector_results == similarity_search(vectorstore, vpref, top_k)
           bm25_results == search(bm25_index, bpref, top_k)
           sorted == sorted_docs(vector_results, bm25_index, bm25_results,
                                 SearchWeights[query], document_keeps_dict)
           result == Prefix(sorted, top_k)
       IN /\ fusion_in' = [query |-> query, top_k |-> top_k,
                           dense |-> [i \in DOMAIN vector_results |->
                                         doc_key(vector_results[i])],
                           sparse |-> [i \in DOMAIN bm25_results |->
                                          doc_key(bm25_index.metadatas[bm25_results[i]])]]
          /\ fusion_out' = Some([i \in DOMAIN result |->
                                    [key |-> result[i].key, score |-> result[i].score]])
    /\ UNCHANGED exceptFusion

\* hybrid searches against a corpus built by ingests that succeed
NextHybrid ==
    \/ \E file \in Files : ingest_document(file, "ok")
    \/ \E query \in UserQuestions \cup Expansions, top_k \in TopKs :
          \E vpref \in Orderings(vectorstore), bpref \in Orderings(bm25_index.metadatas) :
             hybrid_search_call(query, top_k, vpref, bpref)

(***************************************************************************)
(* Outline-driven slicing (pdf_processor.py process_pdf)                   *)
(***************************************************************************)
\* The markdown of a page is a sequence of lines. A line is body text of a
\* page, a markdown header of a title, the running footer, or blank.
TextLine(p, n) == [kind |-> "text", title |-> "", page |-> p, n |-> n]
HeaderLine(t) == [kind |-> "header", title |-> t, page |-> 0, n |-> 0]
FooterLine == [kind |-> "footer", title |-> "", page |-> 0, n |-> 0]
BlankLine == [kind |-> "blank", title |-> "", page |-> 0, n |-> 0]

\* doc.get_toc() of the PDFs of the model: three entries, levels 1, 2, 1,
\* start pages in document order
Titles == <<"A", "B", "C">>
Levels == <<1, 2, 1>>
toc(pdf) ==
    [i \in DOMAIN Titles |-> [level |-> Levels[i], title |-> Titles[i], page |-> pdf.starts[i]]]

\* where the converter renders the header of an outline entry: nowhere, as
\* the first line of the entry's start page, further down that page, or
\* further down the page before it
Placements == {"none", "top", "middle", "before"}

PdfInputs ==
    [starts : {st \in [DOMAIN Titles -> 1..MaxPages] : st[1] <= st[2] /\ st[2] <= st[3]},
     header : {h \in [DOMAIN Titles -> Placements] : h[1] \in {"none", "top"}}]

total_pages == MaxPages

HeadersAt(pdf, p, places) ==
    LET idx == [i \in DOMAIN Titles |-> i]
        here == SelectSeq(idx, LAMBDA i :
                    \/ pdf.header[i] \in places \ {"before"} /\ pdf.starts[i] = p
                    \/ pdf.header[i] \in places \cap {"before"} /\ pdf.starts[i] - 1 = p)
    IN [k \in DOMAIN here |-> HeaderLine(Titles[here[k]])]

\* pymupdf4llm.to_markdown(...)[p]["text"]
page_md(pdf, p) ==
    HeadersAt(pdf, p, {"top"}) \o <<TextLine(p, 1)>>
        \o HeadersAt(pdf, p, {"middle", "before"}) \o <<TextLine(p, 2), FooterLine>>

all_pages_md(pdf) == [p \in 1..total_pages |-> page_md(pdf, p)]

\* "\n\n".join(pages): a blank line between two pages
RECURSIVE JoinPages(_)
JoinPages(pages) ==
    IF pages = <<>> THEN <<>>
    ELSE IF Len(pages) = 1 THEN pages[1]
    ELSE pages[1] \o <<BlankLine>> \o JoinPages(Tail(pages))

\* _auto_detect_noise: the lines found on more than half of the sampled
\* pages (the first three and the last three)
_auto_detect_noise(pdf) ==
    LET indices == {p \in 1..total_pages : p <= 3 \/ p > Max(3, total_pages - 3)}
        lines == UNION {Range(page_md(pdf, p)) : p \in indices}
        count(l) == Cardinality({p \in indices : l \in Range(page_md(pdf, p))})
    IN {l \in lines : 2 * count(l) > Cardinality(indices)}

\* re.sub(pat, '', text) for every pattern: the line is left empty
_apply_cleaning(text, patterns) ==
    [k \in DOMAIN text |-> IF text[k] \in patterns THEN BlankLine ELSE text[k]]

\* str.strip() on a text of lines
RECURSIVE Strip(_)
Strip(text) ==
    IF text = <<>> THEN <<>>
    ELSE IF Head(text) = BlankLine THEN Strip(Tail(text))
    ELSE IF text[Len(text)] = BlankLine THEN Strip(SubSeq(text, 1, Len(text) - 1))
    ELSE text

\* the lines of text that re.compile(r'\n#{1,6}\s+' + title + r'\s*(?:\n|$)')
\* matches: header lines of the title that a newline precedes
Matches(text, title) ==
    {k \in DOMAIN text : k >= 2 /\ text[k] = HeaderLine(title)}

\* strict truncation (lines 154-178): cut at the first match, then strip
truncate(text, next_title) ==
    LET found == Matches(text, next_title)
    IN IF found = {} THEN text
       ELSE Strip(SubSeq(text, 1, (CHOOSE k \in found : \A j \in found : k <= j) - 1))

\* entry i+1's start page as a page index is one less than its page number
end_page_idx(t, i) == IF i + 1 <= Len(t) THEN t[i + 1].page - 1 ELSE total_pages - 1

\* hierarchy after entry i: the titles of the live levels, by level
context_path(t, i) ==
    LET live == {j \in 1..i : \A k \in (j + 1)..i : t[k].level > t[j].level}
        idx == [j \in 1..i |-> j]
        kept == SelectSeq(idx, LAMBDA j : j \in live /\
                    \A k \in live : t[k].level = t[j].level => k <= j)
    IN [k \in DOMAIN kept |-> t[kept[k]].title]

\* one pass of the loop over the outline: the pages of the candidate slice
\* (numbered from 1), the parent text stored, the parent id and context
section(pdf, i) ==
    LET t == toc(pdf)
        start_page_idx == t[i].page - 1
        end_idx == end_page_idx(t, i)
        safe_start == Max(0, start_page_idx)
        safe_end == Min(total_pages - 1, end_idx)
        raw_md == IF safe_start > safe_end THEN <<>>
                  ELSE JoinPages(SubSeq(all_pages_md(pdf), safe_start + 1, safe_end + 1))
        cut == IF i + 1 <= Len(t) THEN truncate(raw_md, t[i + 1].title) ELSE raw_md
        cleaned_text == _apply_cleaning(cut, _auto_detect_noise(pdf))
    IN IF start_page_idx > end_idx \/ Strip(cleaned_text) = <<>>
       THEN [skipped |-> TRUE, pages |-> <<>>, text |-> <<>>, parent_id |-> "",
             context |-> <<>>]
       ELSE [skipped |-> FALSE,
             pages |-> <<safe_start + 1, safe_end + 1>>,
             text |-> cleaned_text,
             parent_id |-> "file_sec_" \o Pad3(i - 1) \o "_" \o t[i].title,
             context |-> context_path(t, i)]

\* no PDF is being processed
InitPdf ==
    /\ pdf_in = [starts |-> [i \in DOMAIN Titles |-> 1], header |-> [i \in DOMAIN Titles |-> "none"]]
    /\ pdf_out = None

\* process_pdf is entered on one of the PDFs
InitPdfCall ==
    /\ pdf_in \in PdfInputs
    /\ pdf_out = None

\* process_pdf: the loop over the outline
process_pdf_sections ==
    /\ pdf_out = None
    /\ pdf_out' = Some([i \in DOMAIN Titles |-> section(pdf_in, i)])
    /\ UNCHANGED pdf_in
    /\ UNCHANGED exceptPdf

NextPdf == process_pdf_sections

(***************************************************************************)
(* Concurrent ingestions (task_manager.py _run: run_in_executor(None, ...) *)
(* runs every ingest_document call on a thread of the default pool)        *)
(***************************************************************************)
\* two upload tasks for different sources, one pool thread each
IngestJobs == <<"fc_ug.pdf", "notes.md">>
IngestThreads == DOMAIN IngestJobs

Parsed(t) ==
    IF IsPdf(IngestJobs[t]) THEN process_pdf(IngestJobs[t]) ELSE chunk_markdown(IngestJobs[t])

InitThreads ==
    threads = [t \in IngestThreads |-> [pc |-> "queued", k |-> 0, tokenized |-> 0]]

At(t, pc) == threads[t].pc = pc
Goto(t, pc) == [threads EXCEPT ![t].pc = pc]

\* ingest_document up to the vector store: the processor runs and the
\* parent sections are put into self.parent_docs
thread_parse(t) ==
    /\ At(t, "queued")
    /\ parent_docs' = ParentDocsAfterParse(parent_docs, IngestJobs[t], Parsed(t),
                                           IF IsMarkdown(IngestJobs[t]) THEN {"full_text"} ELSE {})
    /\ threads' = Goto(t, "parsed")
    /\ UNCHANGED <<vectorstore, bm25_index, bm25_cache, parent_docs_file, tool_config,
                   document_keeps_dict, last, filtered, top_docs>>
    /\ UNCHANGED exceptIngestion

\* self.vectorstore.add_documents(batch)
thread_store(t) ==
    /\ At(t, "parsed")
    /\ vectorstore' = vectorstore \o Parsed(t).documents
    /\ threads' = [threads EXCEPT ![t].pc = "documents", ![t].k = 1]
    /\ UNCHANGED <<bm25_index, bm25_cache, parent_docs, parent_docs_file, tool_config,
                   document_keeps_dict, last, filtered, top_docs>>
    /\ UNCHANGED exceptIngestion

\* add_documents, the three statements of the loop body, one at a time:
\* self.documents.append(doc.page_content)
thread_append_document(t) ==
    /\ At(t, "documents")
    /\ bm25_index' = [bm25_index EXCEPT
                         !.documents = Append(@, page_content(Parsed(t).documents[threads[t].k]))]
    /\ threads' = Goto(t, "doc_ids")
    /\ UNCHANGED <<vectorstore, bm25_cache, parent_docs, parent_docs_file, tool_config,
                   document_keeps_dict, last, filtered, top_docs>>
    /\ UNCHANGED exceptIngestion

\* self.doc_ids.append(doc.metadata.get("id", str(len(self.doc_ids))))
thread_append_doc_id(t) ==
    /\ At(t, "doc_ids")
    /\ bm25_index' = [bm25_index EXCEPT !.doc_ids = Append(@, Len(@))]
    /\ threads' = Goto(t, "metadatas")
    /\ UNCHANGED <<vectorstore, bm25_cache, parent_docs, parent_docs_file, tool_config,
                   document_keeps_dict, last, filtered, top_docs>>
    /\ UNCHANGED exceptIngestion

\* self.metadatas.append(doc.metadata), then the next document or the rebuild
thread_append_metadata(t) ==
    /\ At(t, "metadatas")
    /\ bm25_index' = [bm25_index EXCEPT
                         !.metadatas = Append(@, Parsed(t).documents[threads[t].k])]
    /\ threads' = IF threads[t].k < Len(Parsed(t).documents)
                  THEN [threads EXCEPT ![t].pc = "documents", ![t].k = @ + 1]
                  ELSE Goto(t, "tokenize")
    /\ UNCHANGED <<vectorstore, bm25_cache, parent_docs, parent_docs_file, tool_config,
                   document_keeps_dict, last, filtered, top_docs>>
    /\ UNCHANGED exceptIngestion

\* _rebuild_index: tokenized_docs is computed from the documents held now
thread_tokenize(t) ==
    /\ At(t, "tokenize")
    /\ threads' = [threads EXCEPT ![t].pc = "assign",
                                  ![t].tokenized = Len(bm25_index.documents)]
    /\ UNCHANGED engineVars
    /\ UNCHANGED exceptIngestion

\* self.bm25 = BM25Okapi(tokenized_docs)
thread_assign_bm25(t) ==
    /\ At(t, "assign")
    /\ bm25_index' = [bm25_index EXCEPT !.bm25 = Some(threads[t].tokenized)]
    /\ threads' = Goto(t, "save")
    /\ UNCHANGED <<vectorstore, bm25_cache, parent_docs, parent_docs_file, tool_config,
                   document_keeps_dict, last, filtered, top_docs>>
    /\ UNCHANGED exceptIngestion

\* self.save(): the fields as they are now go to bm25_index.pkl
thread_save(t) ==
    /\ At(t, "save")
    /\ bm25_cache' = save(BM25).cache
    /\ threads' = Goto(t, "persist")
    /\ UNCHANGED <<vectorstore, bm25_index, parent_docs, parent_docs_file, tool_config,
                   document_keeps_dict, last, filtered, top_docs>>
    /\ UNCHANGED exceptIngestion

\* self._save_parent_docs() and the return
thread_save_parent_docs(t) ==
    /\ At(t, "persist")
    /\ parent_docs_file' = Some(parent_docs)
    /\ last' = [op |-> "ingest", arg |-> IngestJobs[t], ok |-> TRUE]
    /\ threads' = Goto(t, "done")
    /\ UNCHANGED <<vectorstore, bm25_index, bm25_cache, parent_docs, tool_config,
                   document_keeps_dict, filtered, top_docs>>
    /\ UNCHANGED exceptIngestion

NextThreads ==
    \/ \E t \in IngestThreads : thread_parse(t)
    \/ \E t \in IngestThreads : thread_store(t)
    \/ \E t \in IngestThreads : thread_append_document(t)
    \/ \E t \in IngestThreads : thread_append_doc_id(t)
    \/ \E t \in IngestThreads : thread_append_metadata(t)
    \/ \E t \in IngestThreads : thread_tokenize(t)
    \/ \E t \in IngestThreads : thread_assign_bm25(t)
    \/ \E t \in IngestThreads : thread_save(t)
    \/ \E t \in IngestThreads : thread_save_parent_docs(t)

(***************************************************************************)
(* Cross-query union (rag_engine.py query_stream, agentic_rag.py           *)
(* retrieve_node)                                                          *)
(***************************************************************************)
\* Documents _hybrid_search can return: two chunks of notes.md, and a chunk
\* of fc_ug.pdf whose text is that of the first (a notice both files carry)
MergeDocs ==
    { [meta |-> [source |-> "notes.md", chunk_id |-> "0"], slot |-> 0,
       page_content |-> "legal notice"],
      [meta |-> [source |-> "notes.md", chunk_id |-> "1"], slot |-> 0,
       page_content |-> "setup"],
      [meta |-> [source |-> "fc_ug.pdf", chunk_id |-> "0"], slot |-> 0,
       page_content |-> "legal notice"] }

\* one result of _hybrid_search: no key twice
HybridResults == DistinctSeqs(MergeDocs, MaxMerged)

\* no retrieval is under way
InitMerge ==
    /\ merge_in = <<>>
    /\ merge_out = None

\* the loop over the queries is entered: the original query and up to
\* MaxExpansions rewrites, each with its result
InitMergeCall ==
    /\ merge_in \in UNION {[1..n -> HybridResults] : n \in 1..(MaxExpansions + 1)}
    /\ merge_out = None

\* all_documents of retrieve_node: a Document is kept when its page_content
\* was not seen before
RECURSIVE MergeByContent(_, _)
MergeByContent(acc, docs) ==
    IF docs = <<>> THEN acc
    ELSE LET d == Head(docs)
         IN MergeByContent(
                IF \E i \in DOMAIN acc : acc[i].page_content = d.page_content
                THEN acc ELSE Append(acc, d),
                Tail(docs))

\* query_stream, lines 1317-1326
query_stream_merge ==
    /\ merge_in # <<>>
    /\ merge_out = None
    /\ merge_out' = Some(MergeCandidates(<<>>, Flatten(merge_in)))
    /\ UNCHANGED merge_in
    /\ UNCHANGED exceptMerge

\* retrieve_node, lines 84-97
retrieve_node_merge ==
    /\ merge_in # <<>>
    /\ merge_out = None
    /\ merge_out' = Some(MergeByContent(<<>>, Flatten(merge_in)))
    /\ UNCHANGED merge_in
    /\ UNCHANGED exceptMerge

NextMerge == query_stream_merge \/ retrieve_node_merge

(***************************************************************************)
(* Parent expansion (rag_engine.py _expand_to_parent)                      *)
(***************************************************************************)
\* A text is a sequence of blocks separated by blank lines ("\n\n"); a
\* block is a run of characters without a blank line, known by a name and
\* its length. Blocks with one name are the same characters.
Block(name, len) == [name |-> name, len |-> len]

RECURSIVE TextLen(_)
TextLen(text) ==
    IF text = <<>> THEN 0
    ELSE Head(text).len + (IF Len(text) > 1 THEN 2 ELSE 0) + TextLen(Tail(text))

\* offset of block j in text
Offset(text, j) == IF j = 1 THEN 0 ELSE TextLen(SubSeq(text, 1, j - 1)) + 2

\* text.split("\n\n")[-1]
LastPart(text) == IF text = <<>> THEN Block("", 0) ELSE text[Len(text)]

\* full_parent_content.find(child_text[:200]): the offset of the first
\* block that begins with these characters, -1 when there is none
Find(text, part) ==
    IF part.len = 0 THEN 0
    ELSE IF \E j \in DOMAIN text : text[j].name = part.name
    THEN Offset(text, CHOOSE j \in DOMAIN text :
                          /\ text[j].name = part.name
                          /\ \A i \in 1..(j - 1) : text[i].name # part.name)
    ELSE -1

\* self.parent_docs of the expansion: sections of fc_ug.pdf of 8000 chars,
\* of 8001 chars and longer, short sections, and a section without text
SmallSections == <<"s05", "s06", "s07", "s08", "s09", "s10", "s11", "s12">>

ExpandParents ==
    [source \in {"fc_ug.pdf"} |->
        [parent_id \in {"s00", "s01", "s02", "s03", "s04"} \cup Range(SmallSections) |->
            CASE parent_id = "s00" -> <<>>
              [] parent_id = "s01" -> <<Block("a", 990), Block("a2", 6010), Block("b", 996)>>
              [] parent_id = "s02" -> <<Block("c", 500), Block("d", 7499)>>
              [] parent_id = "s03" -> <<Block("e", 4000), Block("f", 900), Block("g", 4000)>>
              [] parent_id = "s04" -> <<Block("h", 8000), Block("i", 600)>>
              [] OTHER -> <<Block(parent_id, 100)>>]]

\* a child Document: its metadata, and its page_content with the context
\* path in front
ChildDoc(source, parent_id, chunk_id, body) ==
    [source |-> source, parent_id |-> parent_id, chunk_id |-> chunk_id,
     page_content |-> <<Block("context path", 40)>> \o body]

\* children a retrieval hands over, in rank order: children of one parent,
\* a child without parent_id, one of a source and one of a section the map
\* does not hold, one of a section without text, one whose text is no
\* longer in its section
Children ==
    <<ChildDoc("fc_ug.pdf", "s01", "1", <<Block("a", 990)>>),
      ChildDoc("fc_ug.pdf", "", "2", <<Block("x", 300)>>),
      ChildDoc("fc_ug.pdf", "s02", "3", <<Block("c", 500)>>),
      ChildDoc("fc_ug.pdf", "s01", "4", <<Block("b", 996)>>),
      ChildDoc("other.pdf", "s03", "5", <<Block("f", 900)>>),
      ChildDoc("fc_ug.pdf", "s03", "6", <<Block("e0", 80), Block("f", 900)>>),
      ChildDoc("fc_ug.pdf", "s03", "7", <<Block("z", 800)>>),
      ChildDoc("fc_ug.pdf", "s04", "8", <<Block("i", 600)>>),
      ChildDoc("fc_ug.pdf", "s00", "9", <<Block("y", 100)>>),
      ChildDoc("fc_ug.pdf", "s99", "10", <<Block("y", 100)>>)>>
    \o [i \in 1..Len(SmallSections) |->
           ChildDoc("fc_ug.pdf", SmallSections[i], SmallSections[i],
                    <<Block(SmallSections[i], 100)>>)]

Reverse(s) == [i \in DOMAIN s |-> s[Len(s) + 1 - i]]

\* the first MaxChildren of them, up to MaxDropped left out, best first or
\* worst first
ExpandInputs ==
    LET base == SubSeq(Children, 1, Min(MaxChildren, Len(Children)))
        kept == {SelectSeq([i \in DOMAIN base |-> i], LAMBDA i : i \notin D) :
                    D \in {D \in SUBSET DOMAIN base : Cardinality(D) <= MaxDropped}}
        lists == {[i \in DOMAIN k |-> base[k[i]]] : k \in kept}
    IN lists \cup {Reverse(l) : l \in lists}

\* no expansion is under way
InitExpand ==
    /\ expand_in = <<>>
    /\ expand_out = None

\* _expand_to_parent is entered with these children
InitExpandCall ==
    /\ expand_in \in ExpandInputs
    /\ expand_out = None

\* a threshold that also windows a parent of exactly MAX_PARENT_SIZE chars
windowed_from_threshold(length) == length >= MAX_PARENT_SIZE

\* len(full_parent_content) > MAX_PARENT_SIZE
too_large(length) == length > MAX_PARENT_SIZE

\* a test that remembers child ids where the code remembers parent ids
in_seen_child_ids(out, doc) == \E i \in DOMAIN out : out[i].original_child_id = doc.chunk_id

\* parent_id in seen_parent_ids
in_seen_parent_ids(out, doc) == \E i \in DOMAIN out : out[i].parent_id = doc.parent_id

\* lines 1084-1115: the part of the parent that is emitted, as its bounds in
\* the parent, with the ellipsis added in front and behind
Window(full_parent_content, doc) ==
    LET length == TextLen(full_parent_content)
        child_text == LastPart(doc.page_content)
        start_pos == Find(full_parent_content, child_text)
        center_pos == start_pos + (child_text.len \div 2)
        half_window == WINDOW_SIZE \div 2
        start == Max(0, center_pos - half_window)
        end == Min(length, center_pos + half_window)
    IN IF too_large(length)
       THEN IF start_pos # -1
            THEN [start |-> start, end |-> Max(start, end), lead |-> start > 0,
                  trail |-> end < length, is_windowed |-> TRUE]
            ELSE [start |-> 0, end |-> Min(WINDOW_SIZE, length), lead |-> FALSE,
                  trail |-> TRUE, is_windowed |-> TRUE]
       ELSE [start |-> 0, end |-> length, lead |-> FALSE, trail |-> FALSE,
             is_windowed |-> FALSE]

\* the loop of _expand_to_parent from child n on
RECURSIVE ExpandFrom(_, _, _, _)
ExpandFrom(parents, child_docs, n, out) ==
    IF n > Len(child_docs) \/ Len(out) >= MAX_PARENT_COUNT THEN out
    ELSE LET doc == child_docs[n]
             full_parent_content ==
                 IF doc.source \in DOMAIN parents
                       /\ doc.parent_id \in DOMAIN parents[doc.source]
                 THEN parents[doc.source][doc.parent_id] ELSE <<>>
             skip == \/ doc.parent_id = ""
                     \/ in_seen_parent_ids(out, doc)
                     \/ full_parent_content = <<>>
             w == Window(full_parent_content, doc)
             parent_doc == [source |-> doc.source, parent_id |-> doc.parent_id,
                            original_child_id |-> doc.chunk_id,
                            start |-> w.start, end |-> w.end, lead |-> w.lead,
                            trail |-> w.trail, is_windowed |-> w.is_windowed]
         IN ExpandFrom(parents, child_docs, n + 1,
                       IF skip THEN out ELSE Append(out, parent_doc))

_expand_to_parent ==
    /\ expand_in # <<>>
    /\ expand_out = None
    /\ expand_out' = Some(ExpandFrom(ExpandParents, expand_in, 1, <<>>))
    /\ UNCHANGED expand_in
    /\ UNCHANGED exceptExpand

NextExpand == _expand_to_parent

(***************************************************************************)
(* Saving the durable stores (rag_engine.py _save_parent_docs,             *)
(* _auto_discover_tools, BM25Index.save)                                   *)
(***************************************************************************)
\* The content of a store is known by a version, counted up with every
\* change in memory. A file holds all of one version, or a part of it: a
\* file opened with 'w' is empty until json.dump or pickle.dump is through.
DurableStores == {"parent_docs.json", "tool_config.json", "bm25_index.pkl"}
TempFile == "parent_docs.json.tmp"
Whole(version) == [version |-> version, whole |-> TRUE]
Partial(version) == [version |-> version, whole |-> FALSE]
Absent == [version |-> 0, whole |-> TRUE]

\* the files as a started engine finds them, nothing being saved
InitDurable ==
    /\ store_files = [f \in DurableStores \cup {TempFile} |-> Absent]
    /\ store_save = [store |-> "", pc |-> "idle", version |-> 0]
    /\ crashed = FALSE

\* a change of the store in memory, and its save is entered
begin_save(store) ==
    /\ ~crashed
    /\ store_save.pc = "idle"
    /\ store_files[store].version < MaxSaves
    /\ store_save' = [store |-> store, pc |-> "open",
                      version |-> store_files[store].version + 1]
    /\ UNCHANGED <<store_files, crashed>>
    /\ UNCHANGED exceptDurable

\* _save_parent_docs: open(temp_path, 'w')
parent_docs_open_temp ==
    /\ ~crashed
    /\ store_save.store = "parent_docs.json" /\ store_save.pc = "open"
    /\ store_files' = [store_files EXCEPT ![TempFile] = Partial(store_save.version)]
    /\ store_save' = [store_save EXCEPT !.pc = "dump"]
    /\ UNCHANGED crashed
    /\ UNCHANGED exceptDurable

\* _save_parent_docs: json.dump(self.parent_docs, f) and the file closed
parent_docs_dump ==
    /\ ~crashed
    /\ store_save.store = "parent_docs.json" /\ store_save.pc = "dump"
    /\ store_files' = [store_files EXCEPT ![TempFile] = Whole(store_save.version)]
    /\ store_save' = [store_save EXCEPT !.pc = "replace"]
    /\ UNCHANGED crashed
    /\ UNCHANGED exceptDurable

\* _save_parent_docs: os.replace or os.rename of the temp file
parent_docs_replace ==
    /\ ~crashed
    /\ store_save.store = "parent_docs.json" /\ store_save.pc = "replace"
    /\ store_files' = [store_files EXCEPT !["parent_docs.json"] = store_files[TempFile],
                                          ![TempFile] = Absent]
    /\ store_save' = [store |-> "", pc |-> "idle", version |-> 0]
    /\ UNCHANGED crashed
    /\ UNCHANGED exceptDurable

\* _auto_discover_tools and BM25Index.save: open(path, 'w') or open(path,
\* 'wb') on the file of the store itself
direct_open(store) ==
    /\ ~crashed
    /\ store \in {"tool_config.json", "bm25_index.pkl"}
    /\ store_save.store = store /\ store_save.pc = "open"
    /\ store_files' = [store_files EXCEPT ![store] = Partial(store_save.version)]
    /\ store_save' = [store_save EXCEPT !.pc = "dump"]
    /\ UNCHANGED crashed
    /\ UNCHANGED exceptDurable

\* json.dump(self.tool_config, f) or pickle.dump(data, f), and the file
\* closed
direct_dump(store) ==
    /\ ~crashed
    /\ store \in {"tool_config.json", "bm25_index.pkl"}
    /\ store_save.store = store /\ store_save.pc = "dump"
    /\ store_files' = [store_files EXCEPT ![store] = Whole(store_save.version)]
    /\ store_save' = [store |-> "", pc |-> "idle", version |-> 0]
    /\ UNCHANGED crashed
    /\ UNCHANGED exceptDurable

\* the process is killed between two statements
crash ==
    /\ ~crashed
    /\ crashed' = TRUE
    /\ UNCHANGED <<store_files, store_save>>
    /\ UNCHANGED exceptDurable

NextDurable ==
    \/ \E store \in DurableStores : begin_save(store)
    \/ parent_docs_open_temp
    \/ parent_docs_dump
    \/ parent_docs_replace
    \/ \E store \in DurableStores : direct_open(store)
    \/ \E store \in DurableStores : direct_dump(store)
    \/ crash

(***************************************************************************)
(* Quality pre-scan of uploads (admin_cli.py PDFScanner, cmd_upload)       *)
(***************************************************************************)
\* The text get_text() gives for a page: how many characters, how many of
\* them are not whitespace, how many are of the common printable class, and
\* whether one of the glyph-corruption substrings is among them.
PageText(total, visible, clean, pattern) ==
    [total |-> total, visible |-> visible, clean |-> clean, pattern |-> pattern]

BlankPage == PageText(2, 0, 2, FALSE)
CleanPage == PageText(1000, 800, 950, FALSE)
GlyphPage == PageText(1000, 800, 900, TRUE)
SparsePage == PageText(1000, 800, 600, FALSE)
PageTexts == {BlankPage, CleanPage, GlyphPage, SparsePage}

SampleIndices == {0, 50, 102}

\* files handed to the command: PDFs of 1, 60 and 120 pages with any text on
\* the pages that can be sampled, and a markdown file
UploadFiles ==
    [name : {"fc_ug.pdf"}, total_pages : {1, 60, 120}, pages : [SampleIndices -> PageTexts]]
    \cup [name : {"notes.md"}, total_pages : {0}, pages : {[i \in SampleIndices |-> BlankPage]}]

\* sample_indices of is_garbled
sample_indices(page_count) ==
    <<0>> \o (IF page_count > 50 THEN <<50>> ELSE <<>>)
          \o (IF page_count > 100 THEN <<102>> ELSE <<>>)

\* sample_text += doc[idx].get_text()
RECURSIVE sample_text(_, _)
sample_text(file, indices) ==
    IF indices = <<>> THEN PageText(0, 0, 0, FALSE)
    ELSE LET rest == sample_text(file, Tail(indices))
             page == file.pages[Head(indices)]
         IN IF Head(indices) < file.total_pages
            THEN PageText(page.total + rest.total, page.visible + rest.visible,
                          page.clean + rest.clean, page.pattern \/ rest.pattern)
            ELSE rest

\* PDFScanner.is_garbled: clean_ratio < 0.7 in tenths
is_garbled(file) ==
    LET text == sample_text(file, sample_indices(file.total_pages))
    IN IF ~IsPdf(file.name) THEN FALSE
       ELSE IF text.visible = 0 THEN FALSE
       ELSE IF text.pattern THEN TRUE
       ELSE 10 * text.clean < 7 * Max(1, text.total)

\* no upload command has run
InitPrescan ==
    /\ prescan_in = [file |-> [name |-> "notes.md", total_pages |-> 0,
                               pages |-> [i \in SampleIndices |-> BlankPage]],
                     existing |-> FALSE]
    /\ prescan_out = None

\* the command is started on one file
InitPrescanCall ==
    /\ prescan_in \in [file : UploadFiles, existing : BOOLEAN]
    /\ prescan_out = None

\* cmd_upload on the file: the pre-scan, then the upload loop
cmd_upload ==
    /\ prescan_out = None
    /\ LET file == prescan_in.file
           bad_files == IF IsPdf(file.name) /\ is_garbled(file) THEN {file} ELSE {}
       IN prescan_out' = Some(IF file \in bad_files THEN "skipped: quality"
                              ELSE IF prescan_in.existing THEN "skipped: exists"
                              ELSE "uploaded")
    /\ UNCHANGED prescan_in
    /\ UNCHANGED exceptPrescan

NextPrescan == cmd_upload

(***************************************************************************)
(* Upload and delete endpoints (main.py upload_document,                   *)
(* upload_document_sync, delete_document; task_manager.py _run)            *)
(***************************************************************************)
\* os.path.basename of a path made by temp_path: what follows the slash
AfterSlash == ("./temp_" :> "temp_")
basename(path) == AfterSlash[path[1]] \o path[2]

\* nothing has been uploaded
InitUpload ==
    /\ accepted = {}
    /\ response = [endpoint |-> "", filename |-> "", status |-> ""]

\* POST /upload/sync: the file is saved to its temp path and
\* ingest_document(temp_path, file.filename) is awaited; ingest_document
\* names the document by the basename of the path it is given. how: as for
\* ingest_document
upload_document_sync(F, how) ==
    /\ ingest_document_body(basename(temp_path(F)), how)
    /\ accepted' = IF last'.ok THEN accepted \cup {F} ELSE accepted
    /\ response' = [endpoint |-> "/upload/sync", filename |-> F,
                    status |-> IF last'.ok THEN "success" ELSE "500"]
    /\ UNCHANGED exceptUploading

\* POST /upload and the task it submits: _run calls
\* ingest_fn(task.file_path, task.filename) with the temp path, and the task
\* ends completed
upload_document(F, how) ==
    /\ ingest_document_body(basename(temp_path(F)), how)
    /\ accepted' = IF last'.ok THEN accepted \cup {F} ELSE accepted
    /\ response' = [endpoint |-> "/upload", filename |-> F,
                    status |-> IF last'.ok THEN "completed" ELSE "failed"]
    /\ UNCHANGED exceptUploading

\* DELETE /documents/{filename}
delete_endpoint(F) ==
    /\ delete_document_body(F)
    /\ accepted' = accepted \ {F}
    /\ response' = [endpoint |-> "/documents", filename |-> F, status |-> "deleted"]
    /\ UNCHANGED exceptUploading

\* list_documents: the sources of the rows of the collection
list_documents == {vectorstore[i].source : i \in DOMAIN vectorstore}

NextUpload ==
    \/ \E F \in Sources, how \in {"ok", "unreadable", "store_fails"} :
          upload_document_sync(F, how)
    \/ \E F \in Sources, how \in {"ok", "unreadable", "store_fails"} :
          upload_document(F, how)
    \/ \E F \in Sources : delete_endpoint(F)

(***************************************************************************)
(* Tool discovery (rag_engine.py _auto_discover_tools)                     *)
(***************************************************************************)
\* file names the parent map can have as keys
SourceChars ==
    "starrc_ug.pdf" :> <<"s", "t", "a", "r", "r", "c", "_", "u", "g", ".", "p", "d", "f">> @@
    "StarRC-ref.md" :> <<"S", "t", "a", "r", "R", "C", "-", "r", "e", "f", ".", "m", "d">> @@
    "notes.markdown" :> <<"n", "o", "t", "e", "s", ".", "m", "a", "r", "k", "d", "o", "w", "n">> @@
    "guide.pdf.markdown" :> <<"g", "u", "i", "d", "e", ".", "p", "d", "f", ".", "m", "a", "r", "k", "d", "o", "w", "n">> @@
    "pt_ug.pdf" :> <<"p", "t", "_", "u", "g", ".", "p", "d", "f">> @@
    "ab_x.md" :> <<"a", "b", "_", "x", ".", "m", "d">>

UpperToLower == ("S" :> "s") @@ ("R" :> "r") @@ ("C" :> "c")

\* str.lower()
Lower(s) == [i \in DOMAIN s |-> IF s[i] \in DOMAIN UpperToLower THEN UpperToLower[s[i]] ELSE s[i]]

\* s.replace(pat, '')
RECURSIVE Remove(_, _)
Remove(s, pat) ==
    IF Len(s) < Len(pat) THEN s
    ELSE IF SubSeq(s, 1, Len(pat)) = pat THEN Remove(SubSeq(s, Len(pat) + 1, Len(s)), pat)
    ELSE <<Head(s)>> \o Remove(Tail(s), pat)

\* re.split(r'[_\-\s]', name)[0]
Separators == {"_", "-", " "}
FirstPart(s) ==
    LET seps == {i \in DOMAIN s : s[i] \in Separators}
    IN IF seps = {} THEN s
       ELSE SubSeq(s, 1, (CHOOSE i \in seps : \A j \in seps : i <= j) - 1)

\* guess_tool
guess_tool(filename) ==
    LET name == Remove(Remove(Lower(filename), Chars[".pdf"]), Chars[".md"])
        part == FirstPart(name)
    IN IF Len(part) > 2 THEN Some(part) ELSE None

\* the loop over the tools and their patterns: pattern in filename.lower()
is_covered(tools, filename) ==
    \E i \in DOMAIN tools : \E p \in Range(tools[i].filename_patterns) :
        IsSubstring(p, Lower(filename))

\* the registry as _load_tool_config gives it
DefaultTools ==
    [i \in DOMAIN default_config.tools |->
        [id |-> Chars[default_config.tools[i].id],
         filename_patterns |->
             [j \in DOMAIN default_config.tools[i].filename_patterns |->
                 Chars[default_config.tools[i].filename_patterns[j]]]]]

\* the default registry, an empty parent map, no run yet
InitDiscover ==
    /\ discover_docs = <<>>
    /\ registry = DefaultTools
    /\ discovered = <<>>
    /\ discover_op = "init"

\* an ingest puts a source into the parent map
add_source(source) ==
    /\ Len(discover_docs) < MaxSources
    /\ source \notin Range(discover_docs)
    /\ discover_docs' = Append(discover_docs, source)
    /\ discover_op' = "ingest"
    /\ UNCHANGED <<registry, discovered>>
    /\ UNCHANGED exceptDiscover

\* candidates after the loop over the first n keys of the parent map, in
\* insertion order
RECURSIVE Candidates(_, _, _)
Candidates(tools, docs, n) ==
    IF n = 0 THEN <<>>
    ELSE LET before == Candidates(tools, docs, n - 1)
             filename == SourceChars[docs[n]]
             candidate_id == guess_tool(filename)
             existing_ids == {tools[i].id : i \in DOMAIN tools}
         IN IF is_covered(tools, filename) \/ candidate_id = None THEN before
            ELSE IF candidate_id[1] \in existing_ids \/ candidate_id[1] \in Range(before)
            THEN before
            ELSE Append(before, candidate_id[1])

\* POST /tools/discover: _auto_discover_tools(scan_all=True)
_auto_discover_tools ==
    LET new_tools == Candidates(registry, discover_docs, Len(discover_docs))
    IN /\ registry' = registry \o [i \in DOMAIN new_tools |->
                                      [id |-> new_tools[i],
                                       filename_patterns |-> <<new_tools[i]>>]]
       /\ discovered' = new_tools
       /\ discover_op' = "discover"
       /\ UNCHANGED discover_docs
       /\ UNCHANGED exceptDiscover

NextDiscover ==
    \/ \E source \in DOMAIN SourceChars : add_source(source)
    \/ _auto_discover_tools

(***************************************************************************)
(* Specifications                                                          *)
(***************************************************************************)
\* nothing has been asked of the program yet
InitProgram == InitAgent /\ InitTasks /\ InitEngine /\ InitStreams /\ InitThreads

Init == InitProgram /\ InitFusion /\ InitPdf /\ InitMerge /\ InitExpand /\ InitDurable /\ InitPrescan /\ InitUpload /\ InitDiscover

SpecAgent == Init /\ [][NextAgent]_vars

\* every LLM and retrieval call returns: a node that is entered finishes
SpecAgentFair == SpecAgent /\ WF_vars(NodeStep)

SpecTasks == Init /\ [][NextTasks]_vars

\* the event loop runs every ready coroutine and the executor every queued
\* call; the ingestion call returns or raises
SpecTasksFair == SpecTasks /\ \A id \in TaskIds : WF_vars(WorkerStep(id))

\* ingest_document and delete_document only
NextCorpus ==
    \/ \E file \in Files, how \in {"ok", "unreadable", "store_fails"} :
          ingest_document(file, how)
    \/ \E filename \in Sources : delete_document(filename)

SpecCorpus == Init /\ [][NextCorpus]_vars

\* every operation on the stores, and the process started again
NextStore ==
    \/ \E file \in Files, how \in {"ok", "unreadable", "store_fails"} :
          ingest_document(file, how)
    \/ \E filename \in Sources : delete_document(filename)
    \/ clear_all
    \/ restart

SpecStore == Init /\ [][NextStore]_vars

\* queries against a corpus built by ingests that succeed and by deletes
NextRetrieval ==
    \/ \E file \in Files : ingest_document(file, "ok")
    \/ \E filename \in Sources : delete_document(filename)
    \/ Query

SpecRetrieval == Init /\ [][NextRetrieval]_vars

\* the two streaming endpoints serving concurrent requests
SpecStreams == Init /\ [][NextStreams]_vars

\* _hybrid_search as a function of the query and the two rankings
InitOnFusionCall ==
    InitProgram /\ InitFusionCall /\ InitPdf /\ InitMerge /\ InitExpand /\ InitDurable /\ InitPrescan /\ InitUpload /\ InitDiscover

SpecFusion == InitOnFusionCall /\ [][NextFusion]_vars

\* process_pdf as a function of the PDF
InitOnPdfCall ==
    InitProgram /\ InitFusion /\ InitPdfCall /\ InitMerge /\ InitExpand /\ InitDurable /\ InitPrescan /\ InitUpload /\ InitDiscover

SpecPdf == InitOnPdfCall /\ [][NextPdf]_vars

\* the union of the results of one retrieval, on either path
InitOnMergeCall ==
    InitProgram /\ InitFusion /\ InitPdf /\ InitMergeCall /\ InitExpand /\ InitDurable /\ InitPrescan /\ InitUpload /\ InitDiscover

SpecMerge == InitOnMergeCall /\ [][NextMerge]_vars

\* one call of _expand_to_parent
InitOnExpandCall ==
    InitProgram /\ InitFusion /\ InitPdf /\ InitMerge /\ InitExpandCall /\ InitDurable /\ InitPrescan /\ InitUpload /\ InitDiscover

SpecExpand == InitOnExpandCall /\ [][NextExpand]_vars

\* saves of the durable stores, and a crash at any statement
SpecDurable == Init /\ [][NextDurable]_vars

\* one run of the upload command
InitOnPrescanCall ==
    InitProgram /\ InitFusion /\ InitPdf /\ InitMerge /\ InitExpand /\ InitDurable /\ InitPrescanCall /\ InitUpload /\ InitDiscover

SpecPrescan == InitOnPrescanCall /\ [][NextPrescan]_vars

\* uploads and deletes through the endpoints
SpecUpload == Init /\ [][NextUpload]_vars

\* runs of the tool discovery on a growing parent map
SpecDiscover == Init /\ [][NextDiscover]_vars

\* hybrid searches on the stores the ingests have filled
SpecHybrid == Init /\ [][NextHybrid]_vars

\* two ingestions on pool threads, interleaved statement by statement
SpecThreads == Init /\ [][NextThreads]_vars

(***************************************************************************)
(* Claims                                                                  *)
(***************************************************************************)

\* C1: in an agentic run started with iteration = 0, iteration equals the
\* number of retrieve-node executions so far and never exceeds 3; in
\* particular iteration <= 3 at END.
C1_IterationBounded ==
    /\ iteration = executed["retrieve"]
    /\ iteration <= 3

C1_Witness == node = "END" /\ iteration = 3 /\ executed["retrieve"] = 3

\* C2: every agentic run terminates at END (each LLM and retrieval call
\* returning), END is entered only from the generate node, and generate runs
\* exactly once per run.
C2_Terminates ==
    /\ (node = "router") ~> (node = "END")
    /\ [](node = "END" => executed["generate"] = 1)
    /\ [](executed["generate"] <= 1)
    /\ [][node' = "END" => node = "generate"]_vars

C2_Witness == node = "END" /\ executed["generate"] = 1 /\ executed["rewrite"] = 2

\* C3: a task's status moves only pending -> processing -> completed|failed,
\* and once terminal the record seen by get_status never changes again.
C3_Monotone ==
    [][\A id \in DOMAIN tasks :
          LET s1 == tasks[id].status
              s2 == tasks'[id].status
          IN /\ s1 # s2 => <<s1, s2>> \in {<<"pending", "processing">>,
                                           <<"processing", "completed">>,
                                           <<"processing", "failed">>}
             /\ s1 \in {"completed", "failed"} =>
                   /\ s2 = s1
                   /\ tasks'[id].chunks_created = tasks[id].chunks_created
                   /\ tasks'[id].error = tasks[id].error
                   /\ get_status(id)' = get_status(id)]_vars

C3_Witness ==
    \E i, j \in DOMAIN tasks :
        /\ tasks[i].status = "completed" /\ tasks[i].chunks_created = 1
        /\ tasks[j].status = "failed" /\ tasks[j].error # None

\* C4: under fair scheduling of the worker and an ingestion call that returns
\* or raises, every submitted task is eventually seen completed or failed.
C4_EventuallyTerminal ==
    \A id \in TaskIds :
        (id \in DOMAIN tasks) ~>
            (get_status(id) # None /\ get_status(id)[1].status \in {"completed", "failed"})

C4_Witness ==
    \E id \in DOMAIN tasks : get_status(id)[1].status = "failed"

\* C5: whenever a poll sees a task completed or failed, the file at the task's
\* temp path does not exist and completed_at and processing_duration are set.
C5_TerminalClean ==
    \A id \in DOMAIN tasks :
        get_status(id)[1].status \in {"completed", "failed"} =>
            /\ tasks[id].file_path \notin disk
            /\ get_status(id)[1].completed_at # None
            /\ get_status(id)[1].processing_duration # None
            /\ \E i \in DOMAIN list_tasks : list_tasks[i] = get_status(id)[1]

\* C6: the record of a task is visible as soon as submit has returned, with
\* status pending, chunks_created 0 and error null; an id never submitted is
\* not found.
C6_SubmitPending ==
    [][/\ \A id \in TaskIds :
             (id \notin DOMAIN tasks /\ id \in DOMAIN tasks') =>
                 /\ get_status(id)' # None
                 /\ get_status(id)'[1].status = "pending"
                 /\ get_status(id)'[1].chunks_created = 0
                 /\ get_status(id)'[1].error = None
       /\ \A id \in TaskIds : id \notin DOMAIN tasks => get_status(id) = None]_vars

C6_Witness ==
    /\ \E id \in DOMAIN tasks : get_status(id)[1].status = "pending"
    /\ \E id \in TaskIds : get_status(id) = None


\* C7: after delete_document(source) has completed, no row of the vector
\* store, no entry of the in-memory parent map and no document of the BM25
\* index has that source.
C7_DeleteRemoves ==
    last.op = "delete" =>
        /\ \A i \in DOMAIN vectorstore : vectorstore[i].source # last.arg
        /\ last.arg \notin DOMAIN parent_docs
        /\ \A i \in DOMAIN bm25_index.metadatas : bm25_index.metadatas[i].source # last.arg

\* C8: after a sequence of ingests and deletes that ends with a successful
\* ingest, the vector store and the BM25 index hold the same number of chunks
\* and the same set of chunk ids.
C8_SameChunks ==
    (last.op = "ingest" /\ last.ok) =>
        /\ Len(vectorstore) = Len(bm25_index.documents)
        /\ {doc_key(vectorstore[i]) : i \in DOMAIN vectorstore}
              = {doc_key(bm25_index.metadatas[i]) : i \in DOMAIN bm25_index.metadatas}

\* C9: every document the source-priority filter returns to a query, and so
\* every source emitted, is primary, or is the only supplementary one of a
\* query that named a tool; a query that names no tool gets primary documents
\* only.
C9_SourceRoles ==
    last.op = "query" =>
        LET matched == target_tool(tool_config, last.arg) # None
            supplementary(docs) == {i \in DOMAIN docs : docs[i].source_role = "supplementary"}
            roles_ok(docs) ==
                /\ \A i \in DOMAIN docs : docs[i].source_role \in {"primary", "supplementary"}
                /\ supplementary(docs) # {} => (matched /\ Cardinality(supplementary(docs)) <= 1)
                /\ ~matched => \A i \in DOMAIN docs : docs[i].source_role = "primary"
        IN roles_ok(filtered) /\ roles_ok(top_docs)

\* C10: after any sequence of ingests and deletes, every chunk held in the
\* vector store or in the BM25 index has a non-empty parent_id that is a key
\* of the parent map of the chunk's own source.
C10_ParentResolves ==
    \A m \in Range(vectorstore) \cup Range(bm25_index.metadatas) :
        /\ m.parent_id # ""
        /\ m.source \in DOMAIN parent_docs
        /\ m.parent_id \in parent_docs[m.source]

\* C11: after successful ingests (PDF or markdown, the same file more than
\* once included), no two child chunks of the vector store have the same
\* chunk_id.
C11_UniqueChunkIds ==
    \A i, j \in DOMAIN vectorstore :
        i # j => vectorstore[i].chunk_id # vectorstore[j].chunk_id

\* C12: grade_node leaves state.documents as it found them (same documents,
\* same order) whatever the judgements are, and of the fields of AgentState
\* changes grade_decision only.
C12_GradeKeepsDocuments ==
    [][node = "grade" =>
          /\ documents' = documents
          /\ <<question, current_query, generation, iteration, route_decision,
               skip_generate>>' =
             <<question, current_query, generation, iteration, route_decision,
               skip_generate>>]_vars

\* every document of a full result was judged not relevant and is still there
C12_Witness ==
    /\ node = "rewrite"
    /\ grade_decision = "not_relevant"
    /\ Len(documents) = MaxAgentDocs

\* C13: a run in which every grading pass returned not_relevant (the run left
\* the loop with grade_decision = not_relevant: a relevant pass would have
\* left it at once) has performed exactly three retrieves, three gradings and
\* two rewrites and has iteration = 3; from the third retrieve on nothing
\* changes the documents, so generation sees the set that retrieve stored.
C13_ThreePasses ==
    /\ []((node \in {"generate", "END"} /\ grade_decision = "not_relevant") =>
             /\ iteration = 3
             /\ executed["retrieve"] = 3
             /\ executed["grade"] = 3
             /\ executed["rewrite"] = 2)
    /\ [][(iteration = 3 /\ node \in {"grade", "generate"}) =>
             documents' = documents]_vars

C13_Witness ==
    /\ node = "END"
    /\ grade_decision = "not_relevant"
    /\ iteration = 3
    /\ executed["rewrite"] = 2
    /\ executed["generate"] = 1
    /\ documents # <<>>

\* C14: in every SSE stream of /chat/stream and /chat/agentic/stream the
\* metadata event precedes every content event, done is the last event (a
\* stream that closed without an error ends with done), and no event follows
\* an error event.
C14_EventOrder ==
    \A r \in Requests :
        LET e == streams[r].events
        IN /\ \A i \in DOMAIN e : e[i] = "content" => \E j \in 1..(i - 1) : e[j] = "metadata"
           /\ \A i \in DOMAIN e : e[i] = "done" => i = Len(e)
           /\ \A i \in DOMAIN e : e[i] = "error" => i = Len(e)
           /\ (streams[r].pc = "closed" /\ \A i \in DOMAIN e : e[i] # "error") =>
                  (e # <<>> /\ e[Len(e)] = "done")

\* C15: delete_document(source) persists the removal of the source's parent
\* sections: when the process is started again right after the delete, the
\* parent map loaded from parent_docs.json has no entry for that source.
C15_DeletePersists ==
    [][(last.op = "delete" /\ last'.op = "restart") =>
          last.arg \notin DOMAIN parent_docs']_vars

\* the RRF scenario: dense ranks [X(0), Y(1)], sparse ranks [Y(0), Z(1)],
\* weights (0.5, 0.5), the search done
RRFScenario ==
    /\ fusion_in.dense = <<1, 2>>
    /\ fusion_in.sparse = <<2, 3>>
    /\ SearchWeights[fusion_in.query] = <<5, 5>>
    /\ fusion_out # None

FusedScore(chunk) ==
    LET out == fusion_out[1]
    IN out[CHOOSE i \in DOMAIN out : out[i].key = doc_key(RankedChunks[chunk])].score

FusedOrder == [i \in DOMAIN fusion_out[1] |-> fusion_out[1][i].key]

\* C16, as stated: in the RRF scenario the fused scores are X = 0.5/60,
\* Y = 0.5/60 + 0.5/60, Z = 0.5/61 and the order is Y, X, Z.
C16_ScenarioAsStated ==
    RRFScenario =>
        /\ FusedScore(1) * 60 = 5 * RankScale
        /\ FusedScore(2) * 60 = 2 * 5 * RankScale
        /\ FusedScore(3) * 61 = 5 * RankScale
        /\ FusedOrder = <<doc_key(RankedChunks[2]), doc_key(RankedChunks[1]),
                          doc_key(RankedChunks[3])>>

\* C16, amended: in the RRF scenario the fused scores are X = 0.5/60,
\* Y = 0.5/61 + 0.5/60 (Y has dense rank 1 and sparse rank 0), Z = 0.5/61 and
\* the order is Y, X, Z.
C16_Scenario ==
    RRFScenario =>
        /\ FusedScore(1) * 60 = 5 * RankScale
        /\ FusedScore(2) = (5 * RankScale) \div 61 + (5 * RankScale) \div 60
        /\ FusedScore(3) * 61 = 5 * RankScale
        /\ FusedOrder = <<doc_key(RankedChunks[2]), doc_key(RankedChunks[1]),
                          doc_key(RankedChunks[3])>>

C16_Witness ==
    /\ RRFScenario
    /\ Len(fusion_out[1]) = 3
    /\ fusion_out[1][1].key = doc_key(RankedChunks[2])

\* C17: for every outline entry S that is followed by an entry titled T, the
\* section text stored for S contains no markdown header line of T, wherever
\* in the candidate slice that header was (first line or later).
C17_NoNextHeader ==
    pdf_out # None =>
        \A i \in DOMAIN Titles :
            (i + 1 <= Len(Titles) /\ ~pdf_out[1][i].skipped) =>
                \A k \in DOMAIN pdf_out[1][i].text :
                    pdf_out[1][i].text[k] # HeaderLine(Titles[i + 1])

\* C18: the pages carved for outline entry i start on the entry's start page
\* and end on the page before entry i+1's start page (the last entry's on the
\* last page): for the outline [(1,A,1),(2,B,5),(1,C,10)] pages 1-4, 5-9 and
\* 10 to the end.
C18_SlicePages ==
    pdf_out # None =>
        \A i \in DOMAIN Titles :
            ~pdf_out[1][i].skipped =>
                /\ pdf_out[1][i].pages[1] = pdf_in.starts[i]
                /\ (i + 1 <= Len(Titles) /\ pdf_in.starts[i] < pdf_in.starts[i + 1]) =>
                       pdf_out[1][i].pages[2] = pdf_in.starts[i + 1] - 1
                /\ i = Len(Titles) => pdf_out[1][i].pages[2] = total_pages

\* C19: after the grade node the controller moves to generate if and only if
\* grade_decision = relevant or iteration >= 3, and to rewrite otherwise;
\* rewrite is always followed by retrieve and retrieve by grade.
C19_Edges ==
    [][/\ node = "grade" =>
             /\ node' = "generate" <=> (grade_decision' = "relevant" \/ iteration >= 3)
             /\ node' # "generate" => node' = "rewrite"
       /\ node = "rewrite" => node' = "retrieve"
       /\ node = "retrieve" => node' = "grade"]_vars

\* a run that was sent to rewrite once and then to generate by a relevant grade
C19_Witness ==
    /\ node = "generate"
    /\ grade_decision = "relevant"
    /\ iteration = 2
    /\ executed["rewrite"] = 1
    /\ executed["grade"] = 2

\* the length of the cached index, the rows of the index by key
CachedCount == IF bm25_cache = None THEN -1 ELSE Len(bm25_cache[1].documents)
IndexKeys(metadatas) == [i \in DOMAIN metadatas |-> doc_key(metadatas[i])]

\* C20: a load of the lexical index, at startup or from delete_document,
\* restores the cached index unchanged when its count is the vector store's
\* count, and otherwise leaves in memory exactly the vector store's documents
\* (same count, nothing of the index as it was before the load).
C20_LoadExact ==
    [][last'.op \in {"delete", "restart"} =>
          IF CachedCount = Len(vectorstore')
          THEN bm25_index' = bm25_cache[1]
          ELSE /\ Len(bm25_index'.documents) = Len(vectorstore')
               /\ IndexKeys(bm25_index'.metadatas) = IndexKeys(vectorstore')]_vars

\* the statements of add_documents: append, rebuild, persist
UpdateSteps == {"doc_ids", "metadatas", "tokenize", "assign", "save", "persist"}

\* C21: the lexical-index update steps of two concurrent ingestions of
\* different sources exclude each other, and after both have finished the
\* index holds every chunk of both sources exactly once, with documents,
\* doc_ids and metadatas aligned.
C21_SerializedUpdates ==
    /\ Cardinality({t \in IngestThreads : threads[t].pc \in UpdateSteps}) <= 1
    /\ (\A t \in IngestThreads : threads[t].pc = "done") =>
           /\ Len(bm25_index.documents) = Len(bm25_index.metadatas)
           /\ Len(bm25_index.doc_ids) = Len(bm25_index.metadatas)
           /\ \A i \in DOMAIN bm25_index.metadatas :
                  /\ bm25_index.documents[i] = page_content(bm25_index.metadatas[i])
                  /\ bm25_index.doc_ids[i] = i - 1
           /\ \A t \in IngestThreads : \A k \in DOMAIN Parsed(t).documents :
                  Cardinality({i \in DOMAIN bm25_index.metadatas :
                                   bm25_index.metadatas[i] = Parsed(t).documents[k]}) = 1
           /\ bm25_index.bm25 = Some(Len(bm25_index.documents))

\* 0-based ranks at which a key was returned by one search
RanksOf(keys, key) == {i - 1 : i \in {j \in DOMAIN keys : keys[j] = key}}

\* C22: after _hybrid_search, a key returned by either search is in the
\* result once (when top_k leaves room for all keys), its score is
\* w_v/(60+r_v) for its dense rank plus w_l/(60+r_l) for its sparse rank
\* with a missing modality adding nothing, the result is in descending
\* order of score and has at most top_k entries.
C22_FusedOnce ==
    fusion_out # None =>
        LET out == fusion_out[1]
            w == SearchWeights[fusion_in.query]
            keys == Range(fusion_in.dense) \cup Range(fusion_in.sparse)
            Part(weight, ranks) ==
                IF ranks = {} THEN {0} ELSE {rrf_score(weight, r) : r \in ranks}
        IN /\ Len(out) <= fusion_in.top_k
           /\ \A i \in DOMAIN out : out[i].key \in keys
           /\ \A key \in keys :
                  LET n == Cardinality({i \in DOMAIN out : out[i].key = key})
                  IN n <= 1 /\ (Cardinality(keys) <= fusion_in.top_k => n = 1)
           /\ \A i \in DOMAIN out :
                  \E v \in Part(w[1], RanksOf(fusion_in.dense, out[i].key)),
                     l \in Part(w[2], RanksOf(fusion_in.sparse, out[i].key)) :
                      out[i].score = v + l
           /\ \A i, j \in DOMAIN out : i < j => out[i].score >= out[j].score

\* position of the first document with this key in the results, taken in
\* the order of the queries
FirstSeen(docs, key) ==
    CHOOSE i \in DOMAIN docs :
        /\ doc_key(docs[i].meta) = key
        /\ \A j \in 1..(i - 1) : doc_key(docs[j].meta) # key

\* C23: the merged candidate list, on the linear and on the agentic path,
\* has one document for every key of the results and no key twice, the
\* document is the first one seen with that key, and the list is in
\* first-seen order.
C23_UnionByKey ==
    merge_out # None =>
        LET all == Flatten(merge_in)
            out == merge_out[1]
            keys == {doc_key(all[i].meta) : i \in DOMAIN all}
        IN /\ \A i, j \in DOMAIN out :
                  doc_key(out[i].meta) = doc_key(out[j].meta) => i = j
           /\ \A key \in keys : \E i \in DOMAIN out : out[i] = all[FirstSeen(all, key)]
           /\ \A i, j \in DOMAIN out :
                  i < j => FirstSeen(all, doc_key(out[i].meta))
                               < FirstSeen(all, doc_key(out[j].meta))

\* the child has a parent_id, and the parent map has text for it
Resolves(doc) ==
    /\ doc.parent_id # ""
    /\ doc.source \in DOMAIN ExpandParents
    /\ doc.parent_id \in DOMAIN ExpandParents[doc.source]
    /\ ExpandParents[doc.source][doc.parent_id] # <<>>

\* the first child that resolves to this parent
FirstChild(parent_id) ==
    CHOOSE n \in DOMAIN expand_in :
        /\ Resolves(expand_in[n]) /\ expand_in[n].parent_id = parent_id
        /\ \A m \in 1..(n - 1) :
               ~(Resolves(expand_in[m]) /\ expand_in[m].parent_id = parent_id)

ResolvedParents == {expand_in[n].parent_id : n \in {m \in DOMAIN expand_in : Resolves(expand_in[m])}}

\* C24: _expand_to_parent returns at most 8 parents, no parent_id twice, in
\* the order of the first child of each; children without parent_id or
\* without a parent in the map take no slot: the parents returned are the
\* first 8 that resolve.
C24_EightParents ==
    expand_out # None =>
        LET out == expand_out[1]
        IN /\ Len(out) = Min(MAX_PARENT_COUNT, Cardinality(ResolvedParents))
           /\ \A i \in DOMAIN out :
                  /\ out[i].parent_id \in ResolvedParents
                  /\ out[i].original_child_id = expand_in[FirstChild(out[i].parent_id)].chunk_id
           /\ \A i, j \in DOMAIN out :
                  i < j => FirstChild(out[i].parent_id) < FirstChild(out[j].parent_id)
           /\ \A parent_id \in ResolvedParents :
                  (\A i \in DOMAIN out : out[i].parent_id # parent_id) =>
                      \A i \in DOMAIN out : FirstChild(out[i].parent_id) < FirstChild(parent_id)

\* eight parents are returned, a child without parent and one without text
\* in the map came before the eighth, and a ninth parent was left out
C24_Witness ==
    /\ expand_out # None
    /\ Len(expand_out[1]) = MAX_PARENT_COUNT
    /\ Cardinality(ResolvedParents) > MAX_PARENT_COUNT
    /\ \E n, m \in DOMAIN expand_in :
           /\ n < FirstChild(expand_out[1][MAX_PARENT_COUNT].parent_id)
           /\ m < FirstChild(expand_out[1][MAX_PARENT_COUNT].parent_id)
           /\ expand_in[n].parent_id = ""
           /\ expand_in[m].parent_id # "" /\ ~Resolves(expand_in[m])

\* the child a parent Document was built from, its parent text, and where
\* the last part of the child begins in it
ChildOf(parent_doc) ==
    CHOOSE doc \in Range(expand_in) :
        doc.chunk_id = parent_doc.original_child_id /\ doc.source = parent_doc.source

ParentText(parent_doc) == ExpandParents[parent_doc.source][parent_doc.parent_id]

Occurs(parent_doc) ==
    \E j \in DOMAIN ParentText(parent_doc) :
        ParentText(parent_doc)[j].name = LastPart(ChildOf(parent_doc).page_content).name

Center(parent_doc) ==
    LET text == ParentText(parent_doc)
        part == LastPart(ChildOf(parent_doc).page_content)
        j == CHOOSE j \in DOMAIN text :
                 text[j].name = part.name /\ \A i \in 1..(j - 1) : text[i].name # part.name
    IN Offset(text, j) + part.len \div 2

C26_NeverHalfWritten ==
    crashed => \A store \in DurableStores : store_files[store].whole

\* the pages the scanner samples give nothing but whitespace
EmptySample(file) ==
    \A idx \in SampleIndices : idx < file.total_pages => file.pages[idx].visible = 0

\* C27: a PDF whose sampled pages yield no text is skipped by the pre-scan
\* of the upload command and never submitted, like a garbled PDF.
C27_ScannedSkipped ==
    (/\ prescan_out # None
     /\ IsPdf(prescan_in.file.name)
     /\ EmptySample(prescan_in.file)) => prescan_out = Some("skipped: quality")

\* the rows an upload of F leaves in the stores, under either name
RowsOf(collection, F) ==
    {i \in DOMAIN collection : collection[i].source \in {F, basename(temp_path(F))}}

\* C28: a document uploaded as F through either endpoint is indexed under
\* source F in the vector store, the lexical index and the parent map, so
\* that list_documents reports F, and after delete_document(F) none of its
\* chunks is left.
C28_SourceIsFilename ==
    \A F \in Sources :
        IF F \in accepted
        THEN /\ F \in list_documents
             /\ \E i \in DOMAIN bm25_index.metadatas : bm25_index.metadatas[i].source = F
             /\ F \in DOMAIN parent_docs
             /\ \A i \in RowsOf(vectorstore, F) : vectorstore[i].source = F
        ELSE /\ RowsOf(vectorstore, F) = {}
             /\ RowsOf(bm25_index.metadatas, F) = {}

\* the first token of a file name: the name without its extension, in lower
\* case, up to the first separator
FirstToken(filename) ==
    LET s == Lower(filename)
        dots == {i \in DOMAIN s : s[i] = "."}
        stem == IF dots = {} THEN s
                ELSE SubSeq(s, 1, (CHOOSE i \in dots : \A j \in dots : j <= i) - 1)
    IN FirstPart(stem)

\* C29: a run of _auto_discover_tools that follows a run with no change of
\* the parent map in between returns nothing and leaves the registry as it
\* is; no tool id is in the registry twice; after a run, every source whose
\* first name token has more than 2 characters is covered by a pattern of
\* some tool.
C29_DiscoverOnce ==
    /\ [](\A i, j \in DOMAIN registry : registry[i].id = registry[j].id => i = j)
    /\ [](discover_op = "discover" =>
              \A n \in DOMAIN discover_docs :
                  Len(FirstToken(SourceChars[discover_docs[n]])) > 2 =>
                      is_covered(registry, SourceChars[discover_docs[n]]))
    /\ [][(discover_op = "discover" /\ discover_op' = "discover") =>
              (discovered' = <<>> /\ registry' = registry)]_vars

\* C30: after any sequence of BM25Index operations run one at a time
\* (add_documents by an ingest, load by a start of the process, clear, and
\* the reload a delete triggers) documents, doc_ids and metadatas have the
\* same length, entry i of each belongs to the same chunk (the text is that
\* of the chunk the metadata names, the id is the position the chunk was
\* appended at), and bm25 is None exactly when documents is empty.
C30_ListsAligned ==
    /\ Len(bm25_index.documents) = Len(bm25_index.doc_ids)
    /\ Len(bm25_index.documents) = Len(bm25_index.metadatas)
    /\ \A i \in DOMAIN bm25_index.documents :
          /\ bm25_index.documents[i] = page_content(bm25_index.metadatas[i])
          /\ bm25_index.doc_ids[i] = i - 1
    /\ (bm25_index.bm25 = None) <=> (bm25_index.documents = <<>>)

\* a delete has reloaded an index that holds chunks of two ingests, and the
\* cache file holds a snapshot
C30_Witness ==
    /\ last.op = "delete"
    /\ Len(bm25_index.documents) >= 2
    /\ bm25_index.bm25 # None
    /\ bm25_cache # None

====
